---- MODULE Spec2Model ----
(***************************************************************************)
(* Dispatch pipeline of microservices-delivery-hub: the orders service     *)
(* (servicio_pedidos), the driver service (servicio_mototaxis) and the     *)
(* chat bot's per-sender processing lock (servicio_bot_whatsapp).          *)
(***************************************************************************)
EXTENDS Integers, Sequences, FiniteSets, TLC

\* ------------------------------------------------------------------ bounds
NumDrivers == 2
NumOrders == 2
MaxAccepts == 2
MaxPuts == 2
NumWorkers == 2
MaxTurns == 4

Drivers == 1..NumDrivers
Orders == 1..NumOrders
PutSlots == 1..MaxPuts
Workers == 1..NumWorkers

\* None of Python: an absent driver id / an absent row
NoDriver == 0

\* -------------------------------------------------- orders service: tables
\* order_service.TRANSICIONES_ESTADO_PERMITIDAS
TRANSICIONES_ESTADO_PERMITIDAS ==
  [ solicitado |-> {"confirmado", "cancelado_usuario", "cancelado_sistema"},
    confirmado |-> {"buscando_conductor", "asignado_conductor", "en_proceso_empresa",
                    "listo_para_recoger", "cancelado_sistema", "cancelado_usuario"},
    buscando_conductor |-> {"asignado_conductor", "cancelado_sistema", "confirmado"},
    asignado_conductor |-> {"en_camino_origen", "cancelado_conductor",
                            "cancelado_sistema", "cancelado_usuario"},
    en_proceso_empresa |-> {"listo_para_recoger", "cancelado_sistema"},
    listo_para_recoger |-> {"asignado_conductor", "buscando_conductor", "cancelado_sistema"},
    en_camino_origen |-> {"en_origen", "cancelado_conductor"},
    en_origen |-> {"viaje_iniciado", "cancelado_conductor"},
    viaje_iniciado |-> {"en_destino", "problema_reportado", "cancelado_conductor"},
    en_destino |-> {"entregado", "completado", "problema_reportado"},
    entregado |-> {"completado"},
    completado |-> {},
    cancelado_usuario |-> {},
    cancelado_sistema |-> {},
    cancelado_conductor |-> {},
    problema_reportado |-> {"completado", "cancelado_sistema"} ]

\* order_models.ESTADOS_PEDIDO_VALIDOS (the list the request validator uses)
ESTADOS_PEDIDO_VALIDOS ==
  {"solicitado", "confirmado", "buscando_conductor", "asignado_conductor",
   "en_proceso_empresa", "listo_para_recoger", "en_camino_cliente", "entregado",
   "completado", "cancelado_usuario", "cancelado_sistema", "cancelado_conductor"}

\* Every status name that occurs in the matrix or in the validator's list
TodosLosEstados == DOMAIN TRANSICIONES_ESTADO_PERMITIDAS \cup ESTADOS_PEDIDO_VALIDOS

\* TRANSICIONES_ESTADO_PERMITIDAS.get(estado_actual, [])
Permitidos(estado_actual) ==
  IF estado_actual \in DOMAIN TRANSICIONES_ESTADO_PERMITIDAS
  THEN TRANSICIONES_ESTADO_PERMITIDAS[estado_actual]
  ELSE {}

\* OrderUpdateRequest.validar_estado_pedido: None passes, a name must be listed
ValidarEstadoPedido(value) == value = "None" \/ value \in ESTADOS_PEDIDO_VALIDOS

\* The statuses the spec's data model pairs with an assigned driver
EstadosConConductor ==
  {"asignado_conductor", "en_camino_origen", "en_origen", "viaje_iniciado",
   "en_destino", "entregado", "completado"}

\* --------------------------------------------------------------- variables
VARIABLES
  pedidos,            \* orders DB: order -> [estado_pedido, id_conductor_asignado]
  creando,            \* create_new_order calls between their two commits
  cola_despacho,      \* dispatch events published (pedido.requiere_mototaxi)
  puts,               \* PUT /orders/{id} handlers between read and commit
  cola_actualizaciones, \* cola_actualizaciones_pedido: accept events in flight
  consumidor,         \* the accept-event consumer's message being processed
  cola_notificaciones, \* client-notification events published
  conductores,        \* drivers DB: driver -> estado_disponibilidad etc.
  aceptar,            \* accept calls: <<driver, order>> -> position / outcome
  volteados,          \* history: drivers that an accept call switched to en_servicio
  solapes,            \* history: pairs of accept calls that were in flight together
  lock,               \* bot: processing_lock:<sender> key in Redis
  turnos,             \* bot: each worker's position in process_message
  nTurnos,            \* bot: messages taken from the queue so far
  sesion,             \* bot: the sender's stored session (current_order_data)
  salida,             \* bot: the exit path of each worker's message in hand
  evaluado,           \* bot: the order data get_next_prompt saw in that message
  publicados,         \* bot: orders published to pedidos_exchange
  carga,              \* one completed order on its way from the bot to the orders DB
  reloj,              \* webhook: the clock that time.time() reads
  registros,          \* webhook: the timestamps in the sender's rate_limit sorted set
  historial,          \* history: every rate-limited request, with its verdict
  broker,             \* RabbitMQ: exchanges, queues with their arguments, bindings
  ultimaOp,           \* RabbitMQ: the last operation a service ran and its outcome
  entregas,           \* consumers: the messages delivered so far and their acknowledgement
  peticion,           \* webhook: the last request handled and its response
  pushes,             \* driver service: the pushes scheduled for the last dispatch event
  registro,           \* driver service: the WebSocket registry and its connections
  entregaPedido,      \* orders service: the deliveries of one pedido.nuevo event
  descarga,           \* bot: the audio download in hand
  consulta,           \* bot: the last get_next_prompt call and its answer
  despachos,          \* driver service: dispatch acks, pushes pending on the main loop
  canales,            \* producers: the pika channels and the threads publishing on them
  conexiones,         \* consumers: broker availability, each pika consumer's connection
  consumoPedidos,     \* orders service: the consumer tasks and their queues
  duenoLock,          \* history: the worker whose SETNX set the key in the store
  bienvenida,         \* bot: the sender's session key in the store, the clock, the welcomes sent
  fallosDeLock        \* history: workers whose set_processing(True) hit a store failure

pedidoVars == <<pedidos, creando, cola_despacho, puts, cola_actualizaciones,
                consumidor, cola_notificaciones, conductores, aceptar,
                volteados, solapes>>
turnoVars == <<lock, turnos, nTurnos, sesion, salida, evaluado, publicados>>
limiteVars == <<reloj, registros, historial>>
\* What the bot's worker leaves alone, and what the orders and driver services
\* leave alone
brokerVars == <<broker, ultimaOp>>
otrosVars ==
  <<peticion, pushes, registro, entregaPedido, descarga, consulta, despachos,
    canales, conexiones, consumoPedidos, duenoLock, bienvenida, fallosDeLock>>
extraVars == <<brokerVars, entregas, otrosVars>>
dispatchVars == <<pedidoVars, carga, limiteVars, extraVars>>
lockVars == <<turnoVars, carga, limiteVars, extraVars>>
vars == <<pedidoVars, turnoVars, carga, limiteVars, extraVars>>

\* ------------------------------------------------ orders service: helpers
\* A request field that the JSON body did not carry (model_dump(exclude_unset=True))
Unset == "unset"
UnsetDriver == -1

\* The row a create_order call inserts
FilaNueva == [estado_pedido |-> "solicitado", id_conductor_asignado |-> NoDriver]
\* No row for this order id
SinFila == [estado_pedido |-> "none", id_conductor_asignado |-> NoDriver]

\* OrderUpdateRequest bodies the model sends to PUT /orders/{id}. The status is
\* absent, an assignment, a cancellation, or a status of the matrix that the
\* validator does not list; the driver id is absent, null or the first driver's
PutEstados == {Unset, "asignado_conductor", "cancelado_usuario", "en_camino_origen"}
PutConductores == {UnsetDriver, NoDriver} \cup {d \in Drivers : d = 1}
PutRequests == [estado_pedido : PutEstados, id_conductor_asignado : PutConductores]

\* update_order_by_id, lines 173-185: TRUE when the request passes the matrix check
\* against the status that was read (estado_actual)
TransicionAceptada(req, estado_actual) ==
  LET nuevo_estado_solicitado == req.estado_pedido
  IN  IF nuevo_estado_solicitado \notin {Unset, "None"}
         /\ nuevo_estado_solicitado # estado_actual
      THEN nuevo_estado_solicitado \in Permitidos(estado_actual)
      ELSE TRUE

\* crud_order.update_order: setattr for every field the request carries, then
\* commit. The session emits an UPDATE only for the columns whose value differs
\* from the one it loaded (snap); a NULL estado_pedido violates NOT NULL and the
\* commit is rolled back.
CommitFalla(req, snap) == req.estado_pedido = "None"
FilaTrasCommit(fila, snap, req) ==
  IF CommitFalla(req, snap) THEN fila
  ELSE [estado_pedido |->
          IF req.estado_pedido # Unset /\ req.estado_pedido # snap.estado_pedido
          THEN req.estado_pedido ELSE fila.estado_pedido,
        id_conductor_asignado |->
          IF req.id_conductor_asignado # UnsetDriver
             /\ req.id_conductor_asignado # snap.id_conductor_asignado
          THEN req.id_conductor_asignado ELSE fila.id_conductor_asignado]

\* The accept event of service_history_service.accept_service_by_driver
EventoAceptacion(d, o) ==
  [id_pedido |-> o, id_conductor_que_acepto |-> d,
   nuevo_estado_para_pedido |-> "asignado_conductor"]
\* The OrderUpdateRequest the update consumer builds from an event
PayloadDeEvento(ev) ==
  [estado_pedido |-> ev.nuevo_estado_para_pedido,
   id_conductor_asignado |-> ev.id_conductor_que_acepto]

PutIdle == [pc |-> "idle"]
ConsumidorIdle == [pc |-> "idle"]

\* ------------------------------------------------ orders service: actions
\* create_new_order, first commit: crud_order.create_order inserts solicitado
CrearPedido(o) ==
  /\ pedidos[o] = SinFila
  /\ pedidos' = [pedidos EXCEPT ![o] = FilaNueva]
  /\ creando' = creando \cup {o}
  /\ UNCHANGED <<cola_despacho, puts, cola_actualizaciones, consumidor,
                 cola_notificaciones, conductores, aceptar, volteados, solapes,
                 lockVars>>

\* create_new_order, second commit: update_order to confirmado on the object
\* that was inserted, then the dispatch event (whose failure is only logged)
ConfirmarPedido(o, publicado) ==
  /\ o \in creando
  /\ LET req == [estado_pedido |-> "confirmado", id_conductor_asignado |-> UnsetDriver]
         despues == FilaTrasCommit(pedidos[o], FilaNueva, req)
     IN  /\ pedidos' = [pedidos EXCEPT ![o] = despues]
         /\ cola_despacho' =
              IF despues.estado_pedido = "confirmado" /\ publicado
              THEN cola_despacho \cup {o} ELSE cola_despacho
  /\ creando' = creando \ {o}
  /\ UNCHANGED <<puts, cola_actualizaciones, consumidor, cola_notificaciones,
                 conductores, aceptar, volteados, solapes, lockVars>>

\* PUT /orders/{id}: request validation, get_order_details and the matrix check
PutLeer(s, o, req) ==
  /\ puts[s].pc # "leido"
  /\ \A s2 \in PutSlots : s2 < s => puts[s2].pc = "leido"
  /\ puts' = [puts EXCEPT ![s] =
       IF ~ValidarEstadoPedido(IF req.estado_pedido = Unset THEN "None"
                               ELSE req.estado_pedido)
       THEN [pc |-> "fin", status |-> 422]
       ELSE IF pedidos[o] = SinFila \/ ~TransicionAceptada(req, pedidos[o].estado_pedido)
       THEN [pc |-> "fin", status |-> 404]
       ELSE [pc |-> "leido", id_pedido |-> o, req |-> req, snap |-> pedidos[o]]]
  /\ UNCHANGED <<pedidos, creando, cola_despacho, cola_actualizaciones, consumidor,
                 cola_notificaciones, conductores, aceptar, volteados, solapes,
                 lockVars>>

\* PUT /orders/{id}: crud_order.update_order commits and the endpoint answers
PutConfirmar(s) ==
  /\ puts[s].pc = "leido"
  /\ LET o == puts[s].id_pedido
         despues == FilaTrasCommit(pedidos[o], puts[s].snap, puts[s].req)
     IN  /\ pedidos' = [pedidos EXCEPT ![o] = despues]
         /\ puts' = [puts EXCEPT ![s] =
              [pc |-> "fin",
               status |-> IF CommitFalla(puts[s].req, puts[s].snap) THEN 500 ELSE 200]]
  /\ UNCHANGED <<creando, cola_despacho, cola_actualizaciones, consumidor,
                 cola_notificaciones, conductores, aceptar, volteados, solapes,
                 lockVars>>

\* process_update_message up to update_order_by_id's matrix check: an event for
\* a missing order or a forbidden transition is logged and acked
ConsumirLeer ==
  /\ consumidor.pc = "idle"
  /\ cola_actualizaciones # <<>>
  /\ LET ev == Head(cola_actualizaciones)
         o == ev.id_pedido
         req == PayloadDeEvento(ev)
     IN  consumidor' =
           IF pedidos[o] = SinFila \/ ~TransicionAceptada(req, pedidos[o].estado_pedido)
           THEN ConsumidorIdle
           ELSE [pc |-> "leido", ev |-> ev, snap |-> pedidos[o]]
  /\ cola_actualizaciones' = Tail(cola_actualizaciones)
  /\ UNCHANGED <<pedidos, creando, cola_despacho, puts, cola_notificaciones,
                 conductores, aceptar, volteados, solapes, lockVars>>

\* process_update_message from the commit on: the refreshed row decides whether
\* the client notification is published (a failed publish is only logged)
ConsumirConfirmar(publicado) ==
  /\ consumidor.pc = "leido"
  /\ LET ev == consumidor.ev
         o == ev.id_pedido
         despues == FilaTrasCommit(pedidos[o], consumidor.snap, PayloadDeEvento(ev))
     IN  /\ pedidos' = [pedidos EXCEPT ![o] = despues]
         /\ cola_notificaciones' =
              IF despues.estado_pedido = "asignado_conductor" /\ publicado
              THEN Append(cola_notificaciones,
                          [id_pedido |-> o,
                           id_conductor |-> despues.id_conductor_asignado])
              ELSE cola_notificaciones
  /\ consumidor' = ConsumidorIdle
  /\ UNCHANGED <<creando, cola_despacho, puts, cola_actualizaciones, conductores,
                 aceptar, volteados, solapes, lockVars>>

\* ------------------------------------------------ driver service: helpers
\* The rows the model starts with: a driver as registered (ConductorDB defaults)
\* and a driver who was approved and went available
ConductorRegistrado ==
  [activo |-> TRUE, estado_validacion_general |-> "pendiente",
   estado_disponibilidad |-> "no_disponible"]
ConductorCandidato ==
  [activo |-> TRUE, estado_validacion_general |-> "aprobado",
   estado_disponibilidad |-> "disponible"]

\* models_db.ESTADOS_DISPONIBILIDAD_VALIDOS
ESTADOS_DISPONIBILIDAD_VALIDOS == {"disponible", "no_disponible", "en_servicio"}

\* crud_driver.update_driver_availability_status: an unconditional write of the
\* new value to the driver's row (no comparison with the value read before)
ActualizarDisponibilidad(tabla, d, nuevo_estado) ==
  IF nuevo_estado \notin ESTADOS_DISPONIBILIDAD_VALIDOS THEN tabla
  ELSE [tabla EXCEPT ![d].estado_disponibilidad = nuevo_estado]

\* The messages accept_service_by_driver returns, and the fragments the
\* endpoint looks for in them
MensajesAceptar ==
  {"no_encontrado",      \* "Conductor no encontrado."
   "cuenta_no_activa",   \* "Tu cuenta no está activa o validada para tomar servicios."
   "estado_actual",      \* "No puedes aceptar servicios. Tu estado actual es '...'."
   "error_estado",       \* "Error interno al actualizar tu estado. Intenta de nuevo."
   "exito",              \* "Servicio ... aceptado. Notificando al sistema de pedidos."
   "revertido",          \* "Servicio aceptado, pero hubo un error notificando al
                         \*  sistema de pedidos. Tu estado ha sido revertido. ..."
   "error_servidor"}     \* "Error interno del servidor al intentar aceptar el servicio."
Contiene(mensaje, fragmento) ==
  <<mensaje, fragmento>> \in
    {<<"cuenta_no_activa", "no está activa o validada">>,
     <<"estado_actual", "estado actual es">>,
     <<"error_estado", "Error interno">>,
     <<"error_servidor", "Error interno">>,
     <<"revertido", "notificando al sistema">>}

\* accept_service_endpoint, lines 226-234: the HTTP status of the answer
StatusAceptar(exito, mensaje) ==
  IF exito THEN 200
  ELSE IF Contiene(mensaje, "no está activa o validada")
          \/ Contiene(mensaje, "estado actual es") THEN 403
  ELSE IF Contiene(mensaje, "Error interno")
          \/ Contiene(mensaje, "notificando al sistema") THEN 500
  ELSE 400

AceptarIdle == [pc |-> "idle"]
AceptarFin(exito, mensaje) ==
  [pc |-> "fin", exito |-> exito, mensaje |-> mensaje,
   status |-> StatusAceptar(exito, mensaje)]
LlamadasIniciadas == {c \in Drivers \X Orders : aceptar[c].pc # "idle"}
LlamadasEnCurso == {c \in Drivers \X Orders : aceptar[c].pc \notin {"idle", "fin"}}

\* ------------------------------------------------ driver service: actions
\* accept_service_by_driver, lines 91-105: read the driver and re-verify candidacy
AceptarVerificar(d, o) ==
  /\ aceptar[<<d, o>>].pc = "idle"
  /\ Cardinality(LlamadasIniciadas) < MaxAccepts
  /\ LET conductor == conductores[d]
     IN  aceptar' = [aceptar EXCEPT ![<<d, o>>] =
           IF ~conductor.activo \/ conductor.estado_validacion_general # "aprobado"
           THEN AceptarFin(FALSE, "cuenta_no_activa")
           ELSE IF conductor.estado_disponibilidad # "disponible"
           THEN AceptarFin(FALSE, "estado_actual")
           ELSE [pc |-> "validado"]]
  /\ solapes' = solapes \cup {{<<d, o>>, c} : c \in LlamadasEnCurso}
  /\ UNCHANGED <<pedidos, creando, cola_despacho, puts, cola_actualizaciones,
                 consumidor, cola_notificaciones, conductores, volteados,
                 lockVars>>

\* accept_service_by_driver, lines 107-117: the write of en_servicio; the call
\* goes on when update_driver_availability_status returned the row
AceptarVoltear(d, o) ==
  /\ aceptar[<<d, o>>].pc = "validado"
  /\ conductores' = ActualizarDisponibilidad(conductores, d, "en_servicio")
  /\ IF "en_servicio" \in ESTADOS_DISPONIBILIDAD_VALIDOS
     THEN /\ aceptar' = [aceptar EXCEPT ![<<d, o>>] = [pc |-> "volteado"]]
          /\ volteados' = volteados \cup {d}
     ELSE /\ aceptar' = [aceptar EXCEPT ![<<d, o>>] = AceptarFin(FALSE, "error_estado")]
          /\ volteados' = volteados
  /\ UNCHANGED <<pedidos, creando, cola_despacho, puts, cola_actualizaciones,
                 consumidor, cola_notificaciones, solapes, lockVars>>

\* accept_service_by_driver, lines 132-160 with _publicar_sync: the accept event
\* is published and the call returns success, or the publish fails
AceptarPublicar(d, o, publicado_exitosamente) ==
  /\ aceptar[<<d, o>>].pc = "volteado"
  /\ IF publicado_exitosamente
     THEN /\ cola_actualizaciones' = Append(cola_actualizaciones, EventoAceptacion(d, o))
          /\ aceptar' = [aceptar EXCEPT ![<<d, o>>] = AceptarFin(TRUE, "exito")]
     ELSE /\ cola_actualizaciones' = cola_actualizaciones
          /\ aceptar' = [aceptar EXCEPT ![<<d, o>>] = [pc |-> "publicacion_fallida"]]
  /\ UNCHANGED <<pedidos, creando, cola_despacho, puts, consumidor,
                 cola_notificaciones, conductores, volteados, solapes,
                 lockVars>>

\* The failure answer without the compensating write
AceptarRevertirSinCompensar(d, o) ==
  /\ aceptar[<<d, o>>].pc = "publicacion_fallida"
  /\ aceptar' = [aceptar EXCEPT ![<<d, o>>] = AceptarFin(FALSE, "revertido")]
  /\ UNCHANGED <<pedidos, creando, cola_despacho, puts, cola_actualizaciones,
                 consumidor, cola_notificaciones, conductores, volteados, solapes,
                 lockVars>>

\* accept_service_by_driver, lines 161-184: the compensating write and the
\* failure answer
AceptarRevertir(d, o) ==
  /\ aceptar[<<d, o>>].pc = "publicacion_fallida"
  /\ conductores' = ActualizarDisponibilidad(conductores, d, "disponible")
  /\ aceptar' = [aceptar EXCEPT ![<<d, o>>] = AceptarFin(FALSE, "revertido")]
  /\ UNCHANGED <<pedidos, creando, cola_despacho, puts, cola_actualizaciones,
                 consumidor, cola_notificaciones, volteados, solapes, lockVars>>

\* ---------------------------------------------- bot: the processing lock
\* processing_lock:<sender> of one sender: absent, set by SETNX without an
\* expiry yet, or set with the 300 s expiry running
LockAusente == "ausente"
LockSinExpiracion == "sin_expiracion"
LockConExpiracion == "con_expiracion"
\* No key in the store, so no worker set it
SinDueno == 0

\* The turns that hold the lock: set_processing(sender, True) returned True and
\* the turn's set_processing(sender, False) has not run
Poseedores == {w \in Workers : turnos[w] \in {"procesando", "finalizando"}}

\* ------------------------------------------------- bot: the dialogue turn
\* dialogue_manager.REQUIRED_FIELDS_PER_SERVICE
REQUIRED_FIELDS_PER_SERVICE ==
  [ mototaxi |-> {"nombre_usuario", "origen", "destino", "metodo_pago"},
    domicilio |-> {"nombre_usuario", "destino", "metodo_pago", "detalles_adicionales"},
    compras |-> {"nombre_usuario", "detalles_adicionales", "destino", "metodo_pago"},
    otro |-> {"nombre_usuario", "detalles_adicionales", "metodo_pago"} ]
POSSIBLE_SERVICES == DOMAIN REQUIRED_FIELDS_PER_SERVICE

\* UserSession.current_order_data: the service type (or "None") and the set of
\* the order fields that hold a non-blank value
SesionVacia == [tipo_servicio |-> "None", campos |-> {}]
\* No order data was looked at (the turn did not reach get_next_prompt)
SinEvaluar == [tipo_servicio |-> "sin_evaluar", campos |-> {}]

\* What analyze_message extracts from the messages the model sends: a service
\* type or none, with none or some of the order fields
Extracciones ==
  [tipo_servicio : {"None", "mototaxi"},
   campos : {{}, {"nombre_usuario", "metodo_pago"}, {"origen", "destino"}}]

\* DialogueManager.update_order_data: every extracted value overwrites the
\* session's value of that key
Fusionar(datos, extraido) ==
  [tipo_servicio |-> IF extraido.tipo_servicio # "None"
                     THEN extraido.tipo_servicio ELSE datos.tipo_servicio,
   campos |-> datos.campos \cup extraido.campos]

\* DialogueManager.get_next_prompt: is_complete
EstaCompleto(datos) ==
  /\ datos.tipo_servicio \in POSSIBLE_SERVICES
  /\ REQUIRED_FIELDS_PER_SERVICE[datos.tipo_servicio] \subseteq datos.campos

\* Where the message and the services it needs take process_message before
\* get_next_prompt: an early return, an exception, or the analysis done
Caminos ==
  {"unsupported_media", "audio_not_understood", "audio_error", "vacio",
   "ai_error", "excepcion", "analizado"}

\* The exit path of process_message
SalidaDe(camino, datos, broker_ok) ==
  IF camino # "analizado" THEN camino
  ELSE IF ~EstaCompleto(datos) THEN "incompleto"
  ELSE IF broker_ok THEN "pedido_confirmado"
  ELSE "order_failed"

\* on_message_callback: ack after process_message returned, nack without
\* requeue after it raised
AcuseDe(sal) == IF sal = "excepcion" THEN "nack" ELSE "ack"

\* The message enters the turn whether or not the key is there
TomarMensajeSinComprobar(w, redis_falla) ==
  /\ turnos[w] = "idle"
  /\ nTurnos < MaxTurns
  /\ nTurnos' = nTurnos + 1
  /\ lock' = LockSinExpiracion
  /\ turnos' = [turnos EXCEPT ![w] = "setnx_hecho"]
  /\ UNCHANGED <<sesion, salida, evaluado, publicados, dispatchVars>>

\* set_processing(True) that answers True on a store failure, and the turn
\* goes on as if the key were its own
TomarMensajeFalloAbierto(w, redis_falla) ==
  /\ turnos[w] = "idle"
  /\ nTurnos < MaxTurns
  /\ nTurnos' = nTurnos + 1
  /\ IF redis_falla \/ lock = LockAusente
     THEN /\ lock' = IF redis_falla THEN lock ELSE LockSinExpiracion
          /\ turnos' = [turnos EXCEPT ![w] = "setnx_hecho"]
          /\ salida' = salida
     ELSE /\ lock' = lock
          /\ turnos' = [turnos EXCEPT ![w] = "sin_lock"]
          /\ salida' = [salida EXCEPT ![w] = "espera"]
  /\ duenoLock' = IF ~redis_falla /\ lock = LockAusente THEN w ELSE duenoLock
  /\ fallosDeLock' = IF redis_falla THEN fallosDeLock \cup {w} ELSE fallosDeLock
  /\ UNCHANGED <<sesion, evaluado, publicados>>
  /\ UNCHANGED <<pedidoVars, carga, limiteVars, brokerVars, entregas,
                 peticion, pushes, registro, entregaPedido, descarga,
                 consulta, despachos, canales, conexiones, consumoPedidos,
                 bienvenida>>

\* process_message line 36 with set_processing lines 79-81: SETNX. A store
\* failure (RedisError, lines 88-90), or a key that is already there, ends the
\* message with the 'please wait' reply
TomarMensaje(w, redis_falla) ==
  /\ turnos[w] = "idle"
  /\ nTurnos < MaxTurns
  /\ nTurnos' = nTurnos + 1
  /\ IF ~redis_falla /\ lock = LockAusente
     THEN /\ lock' = LockSinExpiracion
          /\ turnos' = [turnos EXCEPT ![w] = "setnx_hecho"]
          /\ salida' = salida
     ELSE /\ lock' = lock
          /\ turnos' = [turnos EXCEPT ![w] = "sin_lock"]
          /\ salida' = [salida EXCEPT ![w] = "espera"]
  /\ duenoLock' = IF ~redis_falla /\ lock = LockAusente THEN w ELSE duenoLock
  /\ fallosDeLock' = IF redis_falla THEN fallosDeLock \cup {w} ELSE fallosDeLock
  /\ UNCHANGED <<sesion, evaluado, publicados>>
  /\ UNCHANGED <<pedidoVars, carga, limiteVars, brokerVars, entregas,
                 peticion, pushes, registro, entregaPedido, descarga,
                 consulta, despachos, canales, conexiones, consumoPedidos,
                 bienvenida>>

\* set_processing lines 82-83 and 88-90: EXPIRE on the key (a no-op when the
\* key is gone); when the store fails here set_processing returns False and
\* the message ends like an unacquired one, the key staying as it is
PonerExpiracion(w, redis_falla) ==
  /\ turnos[w] = "setnx_hecho"
  /\ IF redis_falla
     THEN /\ lock' = lock
          /\ turnos' = [turnos EXCEPT ![w] = "sin_lock"]
          /\ salida' = [salida EXCEPT ![w] = "espera"]
     ELSE /\ lock' = IF lock = LockAusente THEN LockAusente ELSE LockConExpiracion
          /\ turnos' = [turnos EXCEPT ![w] = "procesando"]
          /\ salida' = salida
  /\ fallosDeLock' = IF redis_falla THEN fallosDeLock \cup {w} ELSE fallosDeLock
  /\ UNCHANGED <<nTurnos, sesion, evaluado, publicados>>
  /\ UNCHANGED <<pedidoVars, carga, limiteVars, brokerVars, entregas,
                 peticion, pushes, registro, entregaPedido, descarga,
                 consulta, despachos, canales, conexiones, consumoPedidos,
                 duenoLock,
                 bienvenida>>

\* The body of the turn without clear_order before the last save
ProcesarSinLimpiar(w, camino, extraido, broker_ok) ==
  /\ turnos[w] = "procesando"
  /\ LET datos == Fusionar(sesion, extraido)
         sal == SalidaDe(camino, datos, broker_ok)
     IN  /\ salida' = [salida EXCEPT ![w] = sal]
         /\ evaluado' = [evaluado EXCEPT ![w] =
              IF camino = "analizado" THEN datos ELSE SinEvaluar]
         /\ sesion' = IF sal \in {"incompleto", "pedido_confirmado"} THEN datos
                      ELSE sesion
         /\ publicados' = IF sal = "pedido_confirmado"
                          THEN publicados + 1 ELSE publicados
  /\ turnos' = [turnos EXCEPT ![w] = "finalizando"]
  /\ UNCHANGED <<lock, nTurnos, dispatchVars>>

\* process_message lines 42-115: the body of the turn. It reads the session,
\* merges what was extracted, and either saves the session with the prompt for
\* what is missing, or publishes the order and saves the cleared session
Procesar(w, camino, extraido, broker_ok) ==
  /\ turnos[w] = "procesando"
  /\ LET datos == Fusionar(sesion, extraido)
         sal == SalidaDe(camino, datos, broker_ok)
     IN  /\ salida' = [salida EXCEPT ![w] = sal]
         /\ evaluado' = [evaluado EXCEPT ![w] =
              IF camino = "analizado" THEN datos ELSE SinEvaluar]
         /\ sesion' = IF sal = "incompleto" THEN datos
                      ELSE IF sal = "pedido_confirmado" THEN SesionVacia
                      ELSE sesion
         /\ publicados' = IF sal = "pedido_confirmado"
                          THEN publicados + 1 ELSE publicados
  /\ turnos' = [turnos EXCEPT ![w] = "finalizando"]
  /\ UNCHANGED <<lock, nTurnos, dispatchVars>>

\* The turn ends without the DELETE
LiberarSinBorrar(w, redis_falla) ==
  /\ turnos[w] = "finalizando"
  /\ turnos' = [turnos EXCEPT ![w] = "liberado"]
  /\ UNCHANGED <<lock, nTurnos, sesion, salida, evaluado, publicados, dispatchVars>>

\* process_message lines 116-117 with set_processing lines 84-90: DELETE of the
\* key, whoever set it; a store failure leaves the key
Liberar(w, redis_falla) ==
  /\ turnos[w] = "finalizando"
  /\ lock' = IF redis_falla THEN lock ELSE LockAusente
  /\ turnos' = [turnos EXCEPT ![w] =
       IF redis_falla THEN "liberacion_fallida" ELSE "liberado"]
  /\ duenoLock' = IF redis_falla THEN duenoLock ELSE SinDueno
  /\ UNCHANGED <<nTurnos, sesion, salida, evaluado, publicados>>
  /\ UNCHANGED <<pedidoVars, carga, limiteVars, brokerVars, entregas,
                 peticion, pushes, registro, entregaPedido, descarga,
                 consulta, despachos, canales, conexiones, consumoPedidos,
                 bienvenida, fallosDeLock>>

\* on_message_callback lines 126-136: basic_ack or basic_nack of the message
\* (AcuseDe of the exit path), after which the worker takes the next message
Acusar(w) ==
  /\ turnos[w] \in {"sin_lock", "liberado", "liberacion_fallida"}
  /\ turnos' = [turnos EXCEPT ![w] = "idle"]
  /\ salida' = [salida EXCEPT ![w] = "ninguna"]
  /\ evaluado' = [evaluado EXCEPT ![w] = SinEvaluar]
  /\ fallosDeLock' = fallosDeLock \ {w}
  /\ UNCHANGED <<lock, nTurnos, sesion, publicados>>
  /\ UNCHANGED <<pedidoVars, carga, limiteVars, brokerVars, entregas,
                 peticion, pushes, registro, entregaPedido, descarga,
                 consulta, despachos, canales, conexiones, consumoPedidos,
                 duenoLock,
                 bienvenida>>

\* Redis removes the key when its 300 s expiry elapses
ExpirarLock ==
  /\ lock = LockConExpiracion
  /\ lock' = LockAusente
  /\ duenoLock' = SinDueno
  /\ UNCHANGED <<turnos, nTurnos, sesion, salida, evaluado, publicados>>
  /\ UNCHANGED <<pedidoVars, carga, limiteVars, brokerVars, entregas,
                 peticion, pushes, registro, entregaPedido, descarga,
                 consulta, despachos, canales, conexiones, consumoPedidos,
                 bienvenida, fallosDeLock>>

NextTurno ==
  \/ \E w \in Workers, redis_falla \in BOOLEAN : TomarMensaje(w, redis_falla)
  \/ \E w \in Workers, redis_falla \in BOOLEAN : PonerExpiracion(w, redis_falla)
  \/ \E w \in Workers, camino \in Caminos, extraido \in Extracciones,
        broker_ok \in BOOLEAN : Procesar(w, camino, extraido, broker_ok)
  \/ \E w \in Workers, redis_falla \in BOOLEAN : Liberar(w, redis_falla)
  \/ \E w \in Workers : Acusar(w)

NextLock ==
  \/ NextTurno
  \/ ExpirarLock

\* ------------------------------- bot to orders service: the order payload
\* order_models.TIPOS_DE_SERVICIO_VALIDOS
TIPOS_DE_SERVICIO_VALIDOS == {"mototaxi", "domicilio", "compras"}

\* The keys of current_order_data that an extraction can fill, the service
\* type and the amount apart
CamposDeSesion ==
  {"nombre_usuario", "origen", "destino", "metodo_pago", "detalles_adicionales",
   "telefono"}
\* The amount as the user wrote it: not given, digits ("12000"), no digit at
\* all ("doce mil"), or digits that float() refuses ("1.2.3")
Montos == {"ausente", "digitos", "sin_digitos", "mal_formado"}

\* The order data with which get_next_prompt reports the order complete
DatosCompletos ==
  {d \in [tipo_servicio : POSSIBLE_SERVICES, campos : SUBSET CamposDeSesion,
          monto : Montos] : EstaCompleto(d)}

\* order_data.get(key): the value's kind, str or None
Obtener(datos, key) == IF key \in datos.campos THEN "str" ELSE "None"

\* DialogueManager.build_order_payload, as publish_order serialises it
build_order_payload(datos) ==
  [id_cliente_externo |-> "str",
   nombre_cliente |-> "str",
   telefono_cliente |-> "str",
   tipo_servicio |-> datos.tipo_servicio,
   origen_descripcion |-> Obtener(datos, "origen"),
   destino_descripcion |-> Obtener(datos, "destino"),
   id_empresa_asociada |-> "None",
   detalles_adicionales_pedido |-> Obtener(datos, "detalles_adicionales"),
   metodo_pago_sugerido |-> Obtener(datos, "metodo_pago"),
   monto_estimado_pedido |-> IF datos.monto = "digitos" THEN "float" ELSE "None",
   items_pedido |->
     IF /\ datos.tipo_servicio \in {"compras", "domicilio"}
        /\ "detalles_adicionales" \in datos.campos
     THEN <<[nombre_item |-> "str", cantidad |-> 1]>>
     ELSE <<>>]

\* OrderItemBase: nombre_item required, cantidad > 0
OrderItemBaseValido(item) ==
  /\ item.nombre_item = "str"
  /\ item.cantidad > 0

\* OrderCreateRequest(**datos_pedido): tipo_servicio passes
\* validar_tipo_servicio, destino_descripcion is a required str, the optional
\* fields are of their type or None, every item is valid
OrderCreateRequestValido(p) ==
  /\ p.tipo_servicio \in TIPOS_DE_SERVICIO_VALIDOS
  /\ p.destino_descripcion = "str"
  /\ p.origen_descripcion \in {"str", "None"}
  /\ p.monto_estimado_pedido \in {"float", "None"}
  /\ \A i \in 1..Len(p.items_pedido) : OrderItemBaseValido(p.items_pedido[i])

SinCarga == [fase |-> "ninguna"]

\* process_message, lines 100-104: the payload of the completed order is built
\* and published, and the user gets the confirmation
PublicarCarga ==
  /\ carga.fase = "completo"
  /\ carga' = [fase |-> "publicado", datos |-> carga.datos,
               payload |-> build_order_payload(carga.datos)]
  /\ UNCHANGED <<pedidoVars, turnoVars, limiteVars, extraVars>>

\* process_order_message: the payload is validated; a valid one goes to
\* create_new_order, whose first commit inserts the row; an invalid one raises
\* inside message.process(), the message is rejected and nothing is stored
ProcesarPedidoNuevo(o) ==
  /\ carga.fase = "publicado"
  /\ pedidos[o] = SinFila
  /\ \A otro \in Orders : otro < o => pedidos[otro] # SinFila
  /\ IF OrderCreateRequestValido(carga.payload)
     THEN /\ pedidos' = [pedidos EXCEPT ![o] = FilaNueva]
          /\ creando' = creando \cup {o}
          /\ carga' = [carga EXCEPT !.fase = "aceptado"]
     ELSE /\ carga' = [carga EXCEPT !.fase = "rechazado"]
          /\ UNCHANGED <<pedidos, creando>>
  /\ UNCHANGED <<cola_despacho, puts, cola_actualizaciones, consumidor,
                 cola_notificaciones, conductores, aceptar, volteados, solapes,
                 turnoVars, limiteVars, extraVars>>

\* ------------------------------------------------ webhook: the rate limiter
\* RateLimiter.max_requests and window_seconds (30 and 60 by default), scaled
max_requests == 2
window_seconds == 4
MaxReloj == 6

\* Redis: the key is gone once its expiry, window_seconds + 1 after the last
\* zadd, has elapsed
Vigentes(marcas, current_time) ==
  IF \E ultima \in marcas :
       /\ \A m \in marcas : m <= ultima
       /\ current_time < ultima + window_seconds + 1
  THEN marcas ELSE {}

\* How the store takes the pipeline: it answers, it cannot be reached, or it
\* executes the pipeline and the answer is lost
Almacenes == {"ok", "sin_conexion", "respuesta_perdida"}

\* is_allowed with request_count > max_requests as the rejection test
is_allowed_mayor_estricto(marcas, current_time, almacen) ==
  LET window_start == current_time - window_seconds
      restantes == {m \in Vigentes(marcas, current_time) : ~(m <= window_start)}
      request_count == Cardinality(restantes)
  IN  [permitido |-> IF almacen = "ok" THEN ~(request_count > max_requests)
                     ELSE TRUE,
       registros |-> IF almacen = "sin_conexion" THEN marcas
                     ELSE restantes \cup {current_time}]

\* RateLimiter.is_allowed: zremrangebyscore(key, 0, window_start), zcard, zadd
\* of current_time, then request_count >= max_requests; any exception admits
is_allowed(marcas, current_time, almacen) ==
  LET window_start == current_time - window_seconds
      restantes == {m \in Vigentes(marcas, current_time) : ~(m <= window_start)}
      request_count == Cardinality(restantes)
  IN  [permitido |-> IF almacen = "ok" THEN ~(request_count >= max_requests)
                     ELSE TRUE,
       registros |-> IF almacen = "sin_conexion" THEN marcas
                     ELSE restantes \cup {current_time}]

\* Time passes
Tic ==
  /\ reloj < MaxReloj
  /\ reloj' = reloj + 1
  /\ UNCHANGED <<registros, historial, pedidoVars, turnoVars, carga, extraVars>>

\* webhook: check_or_raise(sender) on a request of the sender; each request
\* reads a clock value of its own
Solicitar(almacen) ==
  /\ \A h \in historial : h.t # reloj
  /\ LET r == is_allowed(registros, reloj, almacen)
     IN  /\ registros' = r.registros
         /\ historial' = historial \cup
              {[t |-> reloj, permitido |-> r.permitido, almacen |-> almacen]}
  /\ UNCHANGED <<reloj, pedidoVars, turnoVars, carga, extraVars>>

NextLimite ==
  \/ Tic
  \/ \E almacen \in Almacenes : Solicitar(almacen)

\* ------------------------------------------------ RabbitMQ: the topology
\* The queues the services consume, with the exchange and routing key that
\* feed each of them
ColasConsumidas ==
  {"incoming_messages", "cola_pedidos_nuevos", "cola_despacho_mototaxis",
   "cola_actualizaciones_pedido", "cola_notificaciones_cliente_bot"}
ColasDeLaBot == {"incoming_messages", "cola_pedidos_nuevos"}

\* _ensure_queue_with_dlx: the names of the dead-letter exchange, queue and key
DlxDe(nombre) == nombre \o "_dlx"
DeadDe(routing_key) == routing_key \o ".dead"

Colas == ColasConsumidas \cup {DlxDe(q) : q \in ColasDeLaBot}

\* The arguments a queue was declared with; a queue that does not exist
SinArgumentos ==
  [existe |-> TRUE, dlx_exchange |-> "ninguno", dlx_routing_key |-> "ninguna"]
ConDlx(dlx_exchange, dlx_routing_key) ==
  [existe |-> TRUE, dlx_exchange |-> dlx_exchange, dlx_routing_key |-> dlx_routing_key]
ColaAusente ==
  [existe |-> FALSE, dlx_exchange |-> "ninguno", dlx_routing_key |-> "ninguna"]

BrokerVacio ==
  [exchanges |-> {}, colas |-> [q \in Colas |-> ColaAusente], enlaces |-> {}]
NingunaOp == [op |-> "ninguna", sujeto |-> "ninguno", resultado |-> "ninguno"]

\* A channel on which no declaration failed yet
Canal(b) == [b |-> b, ok |-> TRUE]

\* exchange.declare: every exchange of the system is direct and durable
ExchangeDeclare(r, exchange) ==
  IF ~r.ok THEN r
  ELSE [r EXCEPT !.b.exchanges = @ \cup {exchange}]

\* queue.declare (every queue is durable): creates the queue, or checks that
\* the arguments equal those of the existing queue; a mismatch is
\* PRECONDITION_FAILED and closes the channel
QueueDeclare(r, queue, argumentos) ==
  IF ~r.ok THEN r
  ELSE IF ~r.b.colas[queue].existe THEN [r EXCEPT !.b.colas[queue] = argumentos]
  ELSE IF r.b.colas[queue] = argumentos THEN r
  ELSE [r EXCEPT !.ok = FALSE]

\* queue.bind
QueueBind(r, exchange, queue, routing_key) ==
  IF ~r.ok THEN r
  ELSE IF exchange \notin r.b.exchanges \/ ~r.b.colas[queue].existe
       THEN [r EXCEPT !.ok = FALSE]
  ELSE [r EXCEPT !.b.enlaces = @ \cup {<<exchange, routing_key, queue>>}]

\* rabbitmq_service._ensure_queue_with_dlx
ensure_queue_with_dlx(r, queue_name, exchange, routing_key) ==
  LET dlx_exchange == DlxDe(exchange)
      dlx_queue == DlxDe(queue_name)
      dlx_routing_key == DeadDe(routing_key)
      r1 == ExchangeDeclare(r, dlx_exchange)
      r2 == QueueDeclare(r1, dlx_queue, SinArgumentos)
      r3 == QueueBind(r2, dlx_exchange, dlx_queue, dlx_routing_key)
      r4 == ExchangeDeclare(r3, exchange)
      r5 == QueueDeclare(r4, queue_name, ConDlx(dlx_exchange, dlx_routing_key))
  IN  QueueBind(r5, exchange, queue_name, routing_key)

\* The consumers of the orders service, the driver service and the bot's
\* notification consumer: exchange, queue without arguments, binding
declarar_sin_dlx(r, queue_name, exchange, routing_key) ==
  LET r1 == ExchangeDeclare(r, exchange)
      r2 == QueueDeclare(r1, queue_name, SinArgumentos)
  IN  QueueBind(r2, exchange, queue_name, routing_key)

\* The queues a direct exchange routes a routing key to
Destinos(b, exchange, routing_key) ==
  {q \in Colas : <<exchange, routing_key, q>> \in b.enlaces}

\* basic.publish: to a queue, dropped as unroutable, or on a missing exchange
ResultadoPublicar(r, exchange, routing_key) ==
  IF ~r.ok THEN "precondition_failed"
  ELSE IF exchange \notin r.b.exchanges THEN "sin_exchange"
  ELSE IF Destinos(r.b, exchange, routing_key) = {} THEN "descartado"
  ELSE "encolado"

\* basic.nack / reject with requeue=False on a message of the queue: the broker
\* dead-letters it through the queue's x-dead-letter-exchange, or drops it
ResultadoRechazar(b, queue) ==
  LET a == b.colas[queue]
  IN  IF a.dlx_exchange = "ninguno" THEN "descartado"
      ELSE IF /\ a.dlx_exchange \in b.exchanges
              /\ Destinos(b, a.dlx_exchange, a.dlx_routing_key) = {DlxDe(queue)}
           THEN "en_cola_dlx"
      ELSE "descartado"

ResultadoDeclarar(r) == IF r.ok THEN "consumiendo" ELSE "precondition_failed"

\* publish_incoming_message (bot webhook)
PublishIncomingMessage ==
  LET r == ensure_queue_with_dlx(Canal(broker), "incoming_messages",
                                 "incoming_messages_exchange", "message.incoming")
  IN  /\ broker' = r.b
      /\ ultimaOp' = [op |-> "publicar", sujeto |-> "message.incoming",
                      resultado |-> ResultadoPublicar(r, "incoming_messages_exchange",
                                                      "message.incoming")]
      /\ UNCHANGED <<pedidoVars, turnoVars, carga, limiteVars, entregas, otrosVars>>

\* start_worker (bot message worker)
StartWorker ==
  LET r == ensure_queue_with_dlx(Canal(broker), "incoming_messages",
                                 "incoming_messages_exchange", "message.incoming")
  IN  /\ broker' = r.b
      /\ ultimaOp' = [op |-> "declarar", sujeto |-> "incoming_messages",
                      resultado |-> ResultadoDeclarar(r)]
      /\ UNCHANGED <<pedidoVars, turnoVars, carga, limiteVars, entregas, otrosVars>>

\* publish_order (bot message worker)
PublishOrder ==
  LET r == ensure_queue_with_dlx(Canal(broker), "cola_pedidos_nuevos",
                                 "pedidos_exchange", "pedido.nuevo")
  IN  /\ broker' = r.b
      /\ ultimaOp' = [op |-> "publicar", sujeto |-> "pedido.nuevo",
                      resultado |-> ResultadoPublicar(r, "pedidos_exchange",
                                                      "pedido.nuevo")]
      /\ UNCHANGED <<pedidoVars, turnoVars, carga, limiteVars, entregas, otrosVars>>

\* A consumer that declares its queue without arguments: start_order_consumer,
\* start_update_consumer (orders service), start_dispatch_consumer (driver
\* service), start_client_notification_consumer (bot)
ConsumidoresSinDlx ==
  {[cola |-> "cola_pedidos_nuevos", exchange |-> "pedidos_exchange",
    routing_key |-> "pedido.nuevo"],
   [cola |-> "cola_actualizaciones_pedido", exchange |-> "dispatch_exchange",
    routing_key |-> "pedido.conductor_acepto"],
   [cola |-> "cola_despacho_mototaxis", exchange |-> "dispatch_exchange",
    routing_key |-> "pedido.requiere_mototaxi"],
   [cola |-> "cola_notificaciones_cliente_bot", exchange |-> "dispatch_exchange",
    routing_key |-> "pedido.asignado_notificar_cliente"]}

StartConsumer(c) ==
  LET r == declarar_sin_dlx(Canal(broker), c.cola, c.exchange, c.routing_key)
  IN  /\ broker' = r.b
      /\ ultimaOp' = [op |-> "declarar", sujeto |-> c.cola,
                      resultado |-> ResultadoDeclarar(r)]
      /\ UNCHANGED <<pedidoVars, turnoVars, carga, limiteVars, entregas, otrosVars>>

\* Driver service, publicar_evento_actualizacion_pedido: the producer channel
\* declares the exchange only, then publishes the accept event
PublicarEventoActualizacion ==
  LET r == ExchangeDeclare(Canal(broker), "dispatch_exchange")
  IN  /\ broker' = r.b
      /\ ultimaOp' = [op |-> "publicar", sujeto |-> "pedido.conductor_acepto",
                      resultado |-> ResultadoPublicar(r, "dispatch_exchange",
                                                      "pedido.conductor_acepto")]
      /\ UNCHANGED <<pedidoVars, turnoVars, carga, limiteVars, entregas, otrosVars>>

\* Orders service, publicar_evento_pedido_para_despacho: get_exchange with
\* ensure=False declares nothing; the dispatch event or the client notification
\* is published
ClavesDePedidos == {"pedido.requiere_mototaxi", "pedido.asignado_notificar_cliente"}
PublicarEventoPedido(tipo_despacho_key) ==
  /\ ultimaOp' = [op |-> "publicar", sujeto |-> tipo_despacho_key,
                  resultado |-> ResultadoPublicar(Canal(broker), "dispatch_exchange",
                                                  tipo_despacho_key)]
  /\ UNCHANGED <<broker, pedidoVars, turnoVars, carga, limiteVars, entregas, otrosVars>>

\* A consumer rejects a message of its queue without requeue
Rechazar(queue) ==
  /\ broker.colas[queue].existe
  /\ ultimaOp' = [op |-> "rechazar", sujeto |-> queue,
                  resultado |-> ResultadoRechazar(broker, queue)]
  /\ UNCHANGED <<broker, pedidoVars, turnoVars, carga, limiteVars, entregas, otrosVars>>

NextTopologia ==
  \/ PublishIncomingMessage
  \/ StartWorker
  \/ PublishOrder
  \/ \E c \in ConsumidoresSinDlx : StartConsumer(c)
  \/ PublicarEventoActualizacion
  \/ \E k \in ClavesDePedidos : PublicarEventoPedido(k)
  \/ \E q \in ColasConsumidas : Rechazar(q)

\* ------------------------------------------- consumers: acknowledgements
MaxEntregas == 3

\* The consumers of incoming messages (bot worker), new orders and order
\* updates (orders service) and dispatch events (driver service)
Consumidores ==
  {"incoming_messages", "cola_pedidos_nuevos", "cola_actualizaciones_pedido",
   "cola_despacho_mototaxis"}

\* What happens to a delivered message: it is processed, its body is not
\* UTF-8, it is not JSON, or the processing raises an unexpected error (a
\* failed validation, the database or another service down)
Sucesos == {"procesado", "cuerpo_no_utf8", "json_invalido", "error_inesperado"}
ErroresInesperados == {"cuerpo_no_utf8", "error_inesperado"}

\* on_message_callback (bot worker): ack after process_message returned;
\* every exception, the JSON error included, is a nack without requeue
AcuseBot(suceso) == IF suceso = "procesado" THEN "ack" ELSE "nack"

\* process_order_message and process_update_message: message.process() acks
\* when its block exits (the JSON error returns inside it) and rejects without
\* requeue when the block raises
AcusePedidos(suceso) ==
  IF suceso \in {"procesado", "json_invalido"} THEN "ack" ELSE "nack"

\* on_dispatch_message_callback: the body is decoded outside any handler, so
\* an undecodable body ends the consumer with the message unacknowledged and
\* the broker requeues it; process_dispatch_event_sync catches every
\* exception, and the ack follows it
AcuseDespacho(suceso) ==
  IF suceso = "cuerpo_no_utf8" THEN "reencolado" ELSE "ack"

AcuseConsumidor(consumidor_cola, suceso) ==
  CASE consumidor_cola = "incoming_messages" -> AcuseBot(suceso)
    [] consumidor_cola \in {"cola_pedidos_nuevos", "cola_actualizaciones_pedido"}
         -> AcusePedidos(suceso)
    [] consumidor_cola = "cola_despacho_mototaxis" -> AcuseDespacho(suceso)

\* A message is delivered to a consumer and acknowledged
Entregar(consumidor_cola, suceso) ==
  /\ Len(entregas) < MaxEntregas
  /\ entregas' = Append(entregas,
       [cola |-> consumidor_cola, suceso |-> suceso,
        acuse |-> AcuseConsumidor(consumidor_cola, suceso)])
  /\ UNCHANGED <<pedidoVars, turnoVars, carga, limiteVars, brokerVars, otrosVars>>

NextEntregas ==
  \E c \in Consumidores, suceso \in Sucesos : Entregar(c, suceso)

\* ------------------------------------------------------ bot: the webhook
\* A POST /webhook: the body exceeds MAX_REQUEST_SIZE_BYTES or not,
\* TWILIO_AUTH_TOKEN is configured or not, the signature validates or not, how
\* the rate limiter's store answers, the form carries a non-blank From or not,
\* the broker takes the publish or not
Peticiones ==
  [oversize : BOOLEAN, secreto : BOOLEAN, firma_valida : BOOLEAN,
   almacen : Almacenes, remitente : BOOLEAN, broker_ok : BOOLEAN]
NingunaPeticion ==
  [remitente |-> FALSE, pasos |-> <<>>, status |-> 0, publicado |-> FALSE]

Respuesta(req, pasos, status, publicado) ==
  [remitente |-> req.remitente, pasos |-> pasos, status |-> status,
   publicado |-> publicado]

\* webhook() with the publish moved before the rate-limit gate
webhook_publica_antes(req, permitido) ==
  LET p1 == <<"content_length">>
      p2 == Append(p1, "signature")
      p3 == Append(p2, "payload")
      p4 == Append(p3, "publish")
      p5 == Append(p4, "rate_limit")
  IN  IF req.oversize THEN Respuesta(req, p1, 403, FALSE)
      ELSE IF ~req.secreto THEN Respuesta(req, p2, 503, FALSE)
      ELSE IF ~req.firma_valida THEN Respuesta(req, p2, 403, FALSE)
      ELSE IF ~req.remitente THEN Respuesta(req, p3, 500, FALSE)
      ELSE IF ~req.broker_ok THEN Respuesta(req, p4, 503, FALSE)
      ELSE IF ~permitido THEN Respuesta(req, p5, 429, TRUE)
      ELSE Respuesta(req, p5, 200, TRUE)

\* webhook(): the steps it reaches, in order, and the response
webhook(req, permitido) ==
  LET p1 == <<"content_length">>
      p2 == Append(p1, "signature")
      p3 == Append(p2, "rate_limit")
      p4 == Append(p3, "payload")
      p5 == Append(p4, "publish")
  IN  IF req.oversize THEN Respuesta(req, p1, 403, FALSE)
      ELSE IF ~req.secreto THEN Respuesta(req, p2, 503, FALSE)
      ELSE IF ~req.firma_valida THEN Respuesta(req, p2, 403, FALSE)
      ELSE IF ~permitido THEN Respuesta(req, p3, 429, FALSE)
      ELSE IF ~req.remitente THEN Respuesta(req, p4, 500, FALSE)
      ELSE IF ~req.broker_ok THEN Respuesta(req, p5, 503, FALSE)
      ELSE Respuesta(req, p5, 200, TRUE)

\* One request through webhook(): the rate limiter's sorted set is touched
\* when the gate is reached, the topology when the publish is reached
Webhook(req) ==
  LET r == is_allowed(registros, reloj, req.almacen)
      resp == webhook(req, r.permitido)
      canal == ensure_queue_with_dlx(Canal(broker), "incoming_messages",
                                     "incoming_messages_exchange", "message.incoming")
      llega(paso) == \E i \in 1..Len(resp.pasos) : resp.pasos[i] = paso
  IN  /\ reloj \notin registros
      /\ peticion' = resp
      /\ registros' = IF llega("rate_limit") THEN r.registros ELSE registros
      /\ IF llega("publish") /\ req.broker_ok
         THEN /\ broker' = canal.b
              /\ ultimaOp' = [op |-> "publicar", sujeto |-> "message.incoming",
                              resultado |-> ResultadoPublicar(canal,
                                "incoming_messages_exchange", "message.incoming")]
         ELSE UNCHANGED <<broker, ultimaOp>>
      /\ UNCHANGED <<reloj, historial, pedidoVars, turnoVars, carga, entregas,
                     pushes, registro, entregaPedido, descarga,
                 consulta, despachos, canales, conexiones, consumoPedidos,
                 duenoLock, bienvenida, fallosDeLock>>

\* Time passes between requests
TicWebhook ==
  /\ reloj < MaxReloj
  /\ reloj' = reloj + 1
  /\ UNCHANGED <<registros, historial, pedidoVars, turnoVars, carga, extraVars>>

NextWebhook ==
  \/ TicWebhook
  \/ \E req \in Peticiones : Webhook(req)

\* --------------------------------------- driver service: dispatch pushes
\* The limit of get_available_validated_drivers (1000), scaled
LimiteCandidatos == 1

\* The rows a driver can have in the drivers table
FilasConductor ==
  [activo : BOOLEAN, estado_validacion_general : {"pendiente", "aprobado"},
   estado_disponibilidad : ESTADOS_DISPONIBILIDAD_VALIDOS]

\* The filter of get_available_validated_drivers without the test on activo
EsCandidatoSinActivo(fila) ==
  /\ fila.estado_validacion_general = "aprobado"
  /\ fila.estado_disponibilidad = "disponible"

\* The filter of get_available_validated_drivers
EsCandidato(fila) ==
  /\ fila.activo
  /\ fila.estado_validacion_general = "aprobado"
  /\ fila.estado_disponibilidad = "disponible"

Minimo(a, b) == IF a <= b THEN a ELSE b

\* get_available_validated_drivers(limit): the query has no ORDER BY, so any
\* limit of the matching rows can be the result
ResultadosDeConsulta(tabla, limit) ==
  LET aptos == {d \in Drivers : EsCandidato(tabla[d])}
  IN  {S \in SUBSET aptos : Cardinality(S) = Minimo(limit, Cardinality(aptos))}

SinPushes == [id_pedido |-> 0, destinatarios |-> {}]

\* process_dispatch_event_sync: one send_personal_json is scheduled on the main
\* loop for each driver the query returned
ProcesarDespacho(o) ==
  /\ \E aptos \in ResultadosDeConsulta(conductores, LimiteCandidatos) :
       pushes' = [id_pedido |-> o, destinatarios |-> aptos]
  /\ UNCHANGED <<pedidoVars, turnoVars, carga, limiteVars, brokerVars, entregas,
                 peticion, registro, entregaPedido, descarga,
                 consulta, despachos, canales, conexiones, consumoPedidos,
                 duenoLock, bienvenida, fallosDeLock>>

\* PUT /drivers/me/status
CambiarDisponibilidad(d, nuevo_estado) ==
  /\ conductores' = ActualizarDisponibilidad(conductores, d, nuevo_estado)
  /\ conductores' # conductores
  /\ UNCHANGED <<pedidos, creando, cola_despacho, puts, cola_actualizaciones,
                 consumidor, cola_notificaciones, aceptar, volteados, solapes,
                 lockVars>>

NextDespacho ==
  \/ \E o \in Orders : ProcesarDespacho(o)
  \/ \E d \in Drivers, e \in ESTADOS_DISPONIBILIDAD_VALIDOS : CambiarDisponibilidad(d, e)

\* ------------------------------------ driver service: WebSocket registry
MaxConexiones == 3
Handles == 1..MaxConexiones
SinHandle == 0

\* ConnectionManager.active_connections, the connections whose endpoint is
\* still in its receive loop, and the next connection to arrive
RegistroVacio ==
  [activa |-> [d \in Drivers |-> SinHandle], abiertas |-> {}, siguiente |-> 1]

\* ConnectionManager.disconnect: pops the driver's entry, whatever it holds
disconnect(activa, d) == [activa EXCEPT ![d] = SinHandle]

\* websocket_location_endpoint up to its loop: connect() stores the new
\* WebSocket under the driver's id
Conectar(d) ==
  /\ registro.siguiente \in Handles
  /\ registro' =
       [activa |-> [registro.activa EXCEPT ![d] = registro.siguiente],
        abiertas |-> registro.abiertas \cup {<<d, registro.siguiente>>},
        siguiente |-> registro.siguiente + 1]
  /\ UNCHANGED <<pedidoVars, turnoVars, carga, limiteVars, brokerVars, entregas,
                 peticion, pushes, entregaPedido, descarga,
                 consulta, despachos, canales, conexiones, consumoPedidos,
                 duenoLock, bienvenida, fallosDeLock>>

\* websocket_location_endpoint: the loop of connection h ends
\* (WebSocketDisconnect or an error) and the finally block calls disconnect
Cerrar(d, h) ==
  /\ <<d, h>> \in registro.abiertas
  /\ registro' = [registro EXCEPT !.activa = disconnect(registro.activa, d),
                                  !.abiertas = @ \ {<<d, h>>}]
  /\ UNCHANGED <<pedidoVars, turnoVars, carga, limiteVars, brokerVars, entregas,
                 peticion, pushes, entregaPedido, descarga,
                 consulta, despachos, canales, conexiones, consumoPedidos,
                 duenoLock, bienvenida, fallosDeLock>>

\* send_personal_json: a failed send calls disconnect
EnviarPush(d, enviado) ==
  /\ registro.activa[d] # SinHandle
  /\ registro' = IF enviado THEN registro
                 ELSE [registro EXCEPT !.activa = disconnect(registro.activa, d)]
  /\ UNCHANGED <<pedidoVars, turnoVars, carga, limiteVars, brokerVars, entregas,
                 peticion, pushes, entregaPedido, descarga,
                 consulta, despachos, canales, conexiones, consumoPedidos,
                 duenoLock, bienvenida, fallosDeLock>>

NextRegistro ==
  \/ \E d \in Drivers : Conectar(d)
  \/ \E d \in Drivers, h \in Handles : Cerrar(d, h)
  \/ \E d \in Drivers, enviado \in BOOLEAN : EnviarPush(d, enviado)

\* ------------------------------------- orders service: redelivered events
MaxReentregas == 1

\* The pedido.nuevo event in hand: whether its source gave it an idempotency
\* key, and how often the broker delivered it again
SinEntrega == [clave |-> FALSE, reentregas |-> 0]

\* The consumer's process ends after create_new_order returned and before
\* message.process() acked: the broker delivers the event again
ReentregarCarga ==
  /\ carga.fase = "aceptado"
  /\ creando = {}
  /\ entregaPedido.reentregas < MaxReentregas
  /\ carga' = [carga EXCEPT !.fase = "publicado"]
  /\ entregaPedido' = [entregaPedido EXCEPT !.reentregas = @ + 1]
  /\ UNCHANGED <<pedidoVars, turnoVars, limiteVars, brokerVars, entregas,
                 peticion, pushes, registro, descarga,
                 consulta, despachos, canales, conexiones, consumoPedidos,
                 duenoLock, bienvenida, fallosDeLock>>

\* ---------------------------------------------------- bot: audio download
\* MAX_AUDIO_SIZE_MB * 1024 * 1024 and the chunk size of aiter_bytes (8192),
\* scaled, and the largest body the model sends
MaxAudio == 8
ChunkSize == 2
MaxCuerpo == 13

SinDescarga ==
  [fase |-> "ninguna", cuerpo |-> 0, downloaded |-> 0, escritos |-> 0,
   archivo |-> FALSE, transcrito |-> FALSE]

\* download_audio up to the stream: validate_media rejects a body whose
\* Content-Length header exceeds the limit (a missing header counts as 0);
\* otherwise the temp file is opened.  Each audio message is handled on its
\* own, so a download starts whenever none is in progress
IniciarDescarga(cuerpo, con_cabecera) ==
  /\ descarga.fase # "descargando"
  /\ LET content_length == IF con_cabecera THEN cuerpo ELSE 0
     IN  descarga' =
           IF content_length > MaxAudio
           THEN [SinDescarga EXCEPT !.fase = "rechazada", !.cuerpo = cuerpo]
           ELSE [SinDescarga EXCEPT !.fase = "descargando", !.cuerpo = cuerpo,
                                    !.archivo = TRUE]
  /\ UNCHANGED <<pedidoVars, turnoVars, carga, limiteVars, brokerVars, entregas,
                 peticion, pushes, registro, entregaPedido,
                 consulta, despachos, canales, conexiones, consumoPedidos,
                 duenoLock, bienvenida, fallosDeLock>>

\* The loop body with downloaded >= max_size as the abort test
RecibirChunkMayorIgual ==
  /\ descarga.fase = "descargando"
  /\ descarga.downloaded < descarga.cuerpo
  /\ LET chunk == Minimo(ChunkSize, descarga.cuerpo - descarga.downloaded)
         downloaded == descarga.downloaded + chunk
     IN  descarga' =
           IF downloaded >= MaxAudio
           THEN [descarga EXCEPT !.fase = "abortada", !.downloaded = downloaded,
                                 !.archivo = FALSE]
           ELSE [descarga EXCEPT !.downloaded = downloaded, !.escritos = @ + chunk]
  /\ UNCHANGED <<pedidoVars, turnoVars, carga, limiteVars, brokerVars, entregas,
                 peticion, pushes, registro, entregaPedido,
                 consulta, despachos, canales, conexiones, consumoPedidos,
                 duenoLock, bienvenida, fallosDeLock>>

\* download_audio, one turn of the loop over aiter_bytes: the chunk is counted,
\* the download is aborted and the file removed when the count exceeds the
\* limit, and the chunk is written otherwise
RecibirChunk ==
  /\ descarga.fase = "descargando"
  /\ descarga.downloaded < descarga.cuerpo
  /\ LET chunk == Minimo(ChunkSize, descarga.cuerpo - descarga.downloaded)
         downloaded == descarga.downloaded + chunk
     IN  descarga' =
           IF downloaded > MaxAudio
           THEN [descarga EXCEPT !.fase = "abortada", !.downloaded = downloaded,
                                 !.archivo = FALSE]
           ELSE [descarga EXCEPT !.downloaded = downloaded, !.escritos = @ + chunk]
  /\ UNCHANGED <<pedidoVars, turnoVars, carga, limiteVars, brokerVars, entregas,
                 peticion, pushes, registro, entregaPedido,
                 consulta, despachos, canales, conexiones, consumoPedidos,
                 duenoLock, bienvenida, fallosDeLock>>

\* download_audio: the connection breaks mid-stream (httpx.RequestError); the
\* file is removed
FallarDescarga ==
  /\ descarga.fase = "descargando"
  /\ descarga.downloaded < descarga.cuerpo
  /\ descarga' = [descarga EXCEPT !.fase = "error", !.archivo = FALSE]
  /\ UNCHANGED <<pedidoVars, turnoVars, carga, limiteVars, brokerVars, entregas,
                 peticion, pushes, registro, entregaPedido,
                 consulta, despachos, canales, conexiones, consumoPedidos,
                 duenoLock, bienvenida, fallosDeLock>>

\* download_audio returns the path at the end of the stream, and
\* process_message calls transcribe, which removes the file when it is done
Transcribir ==
  /\ descarga.fase = "descargando"
  /\ descarga.downloaded = descarga.cuerpo
  /\ descarga' = [descarga EXCEPT !.fase = "transcrita", !.transcrito = TRUE,
                                  !.archivo = FALSE]
  /\ UNCHANGED <<pedidoVars, turnoVars, carga, limiteVars, brokerVars, entregas,
                 peticion, pushes, registro, entregaPedido,
                 consulta, despachos, canales, conexiones, consumoPedidos,
                 duenoLock, bienvenida, fallosDeLock>>

NextDescarga ==
  \/ \E cuerpo \in 0..MaxCuerpo, con_cabecera \in BOOLEAN :
       IniciarDescarga(cuerpo, con_cabecera)
  \/ RecibirChunk
  \/ FallarDescarga
  \/ Transcribir

\* ------------------------------------------------ bot: get_next_prompt
\* What current_order_data.get(field) can hold: no entry, a string of blanks,
\* or a string with text
ValoresDeCampo == {"ausente", "blanco", "texto"}

\* What current_order_data.get("tipo_servicio") can hold: no entry, or one of
\* the values normalize_service_type lets through
TiposEnSesion == {"None"} \cup POSSIBLE_SERVICES

\* The fields get_next_prompt reads: those some service requires
CamposRequeridos ==
  UNION {REQUIRED_FIELDS_PER_SERVICE[t] : t \in DOMAIN REQUIRED_FIELDS_PER_SERVICE}

SinConsulta ==
  [tipo_servicio |-> "None", valores |-> [c \in CamposRequeridos |-> "ausente"],
   is_complete |-> FALSE, pregunta |-> "sin_consulta", missing |-> {}]

\* get_next_prompt with lines 72-73 reading 'if value is None'
get_next_prompt_solo_ausentes(service_type, valores) ==
  IF service_type = "None" \/ service_type \notin DOMAIN REQUIRED_FIELDS_PER_SERVICE
  THEN [is_complete |-> FALSE, pregunta |-> "SERVICE_TYPE_PROMPT", missing |-> {}]
  ELSE LET missing == {field \in REQUIRED_FIELDS_PER_SERVICE[service_type] :
                         valores[field] = "ausente"}
       IN  IF missing # {}
           THEN [is_complete |-> FALSE, pregunta |-> "MISSING_FIELDS_PROMPT",
                 missing |-> missing]
           ELSE [is_complete |-> TRUE, pregunta |-> "None", missing |-> {}]

\* DialogueManager.get_next_prompt: (is_complete, message), the message given
\* by its template and the fields it names
get_next_prompt(service_type, valores) ==
  IF service_type = "None" \/ service_type \notin DOMAIN REQUIRED_FIELDS_PER_SERVICE
  THEN [is_complete |-> FALSE, pregunta |-> "SERVICE_TYPE_PROMPT", missing |-> {}]
  ELSE LET missing == {field \in REQUIRED_FIELDS_PER_SERVICE[service_type] :
                         valores[field] # "texto"}
       IN  IF missing # {}
           THEN [is_complete |-> FALSE, pregunta |-> "MISSING_FIELDS_PROMPT",
                 missing |-> missing]
           ELSE [is_complete |-> TRUE, pregunta |-> "None", missing |-> {}]

\* One call of get_next_prompt on a session
ConsultarPrompt(service_type, valores) ==
  /\ LET r == get_next_prompt(service_type, valores)
     IN  consulta' = [tipo_servicio |-> service_type, valores |-> valores,
                      is_complete |-> r.is_complete, pregunta |-> r.pregunta,
                      missing |-> r.missing]
  /\ UNCHANGED <<pedidoVars, turnoVars, carga, limiteVars, brokerVars, entregas,
                 peticion, pushes, registro, entregaPedido, descarga,
                 despachos, canales, conexiones, consumoPedidos, duenoLock,
                 bienvenida, fallosDeLock>>

NextPrompt ==
  \E service_type \in TiposEnSesion, valores \in [CamposRequeridos -> ValoresDeCampo] :
    ConsultarPrompt(service_type, valores)

\* ------------------------- driver service: consumer thread and main loop
\* The dispatch messages the consumer takes in one run
MaxDespachos == 1

\* No message taken: no ack sent, no coroutine pending on the main loop, no
\* candidates query answered, no thread has written to a WebSocket
SinDespachos ==
  [acks |-> [o \in Orders |-> 0], programados |-> {}, consultados |-> {},
   escritores |-> {}]

TomadosDespacho == Cardinality({o \in Orders : despachos.acks[o] > 0})

\* The callback with the sends made from the consumer thread itself
on_dispatch_message_callback_envia_en_hilo(o, consulta_ok) ==
  /\ o \in cola_despacho
  /\ TomadosDespacho < MaxDespachos
  /\ cola_despacho' = cola_despacho \ {o}
  /\ \E aptos \in ResultadosDeConsulta(conductores, LimiteCandidatos) :
       LET destinatarios == IF consulta_ok THEN aptos ELSE {}
           con_canal == {d \in destinatarios : registro.activa[d] # SinHandle}
       IN  /\ pushes' = IF consulta_ok
                        THEN [id_pedido |-> o, destinatarios |-> aptos]
                        ELSE pushes
           /\ despachos' =
                [despachos EXCEPT
                   !.consultados = IF consulta_ok THEN @ \cup {o} ELSE @,
                   !.escritores = IF con_canal # {}
                                  THEN @ \cup {"DispatchConsumerThread"} ELSE @,
                   !.acks[o] = @ + 1]
  /\ UNCHANGED <<pedidos, creando, puts, cola_actualizaciones, consumidor,
                 cola_notificaciones, conductores, aceptar, volteados, solapes,
                 turnoVars, carga, limiteVars, brokerVars, entregas,
                 peticion, registro, entregaPedido, descarga,
                 consulta, canales, conexiones, consumoPedidos, duenoLock,
                 bienvenida, fallosDeLock>>

\* The callback with the ack sent before the event is processed and nothing
\* scheduled after it
on_dispatch_message_callback_solo_ack(o, consulta_ok) ==
  /\ o \in cola_despacho
  /\ TomadosDespacho < MaxDespachos
  /\ cola_despacho' = cola_despacho \ {o}
  /\ despachos' =
       [despachos EXCEPT
          !.consultados = IF consulta_ok THEN @ \cup {o} ELSE @,
          !.acks[o] = @ + 1]
  /\ UNCHANGED <<pedidos, creando, puts, cola_actualizaciones, consumidor,
                 cola_notificaciones, conductores, aceptar, volteados, solapes,
                 turnoVars, carga, limiteVars, brokerVars, entregas,
                 peticion, pushes, registro, entregaPedido, descarga,
                 consulta, canales, conexiones, consumoPedidos, duenoLock,
                 bienvenida, fallosDeLock>>

\* on_dispatch_message_callback on the consumer thread, for a message the
\* orders service published: process_dispatch_event_sync queries the
\* candidates and hands one send_personal_json per row to the main loop with
\* run_coroutine_threadsafe (a failed query is logged and nothing is handed
\* over), and then the message is acked
on_dispatch_message_callback(o, consulta_ok) ==
  /\ o \in cola_despacho
  /\ TomadosDespacho < MaxDespachos
  /\ cola_despacho' = cola_despacho \ {o}
  /\ \E aptos \in ResultadosDeConsulta(conductores, LimiteCandidatos) :
       LET destinatarios == IF consulta_ok THEN aptos ELSE {}
       IN  /\ pushes' = IF consulta_ok
                        THEN [id_pedido |-> o, destinatarios |-> aptos]
                        ELSE pushes
           /\ despachos' =
                [despachos EXCEPT
                   !.consultados = IF consulta_ok THEN @ \cup {o} ELSE @,
                   !.programados = @ \cup {<<o, d>> : d \in destinatarios},
                   !.acks[o] = @ + 1]
  /\ UNCHANGED <<pedidos, creando, puts, cola_actualizaciones, consumidor,
                 cola_notificaciones, conductores, aceptar, volteados, solapes,
                 turnoVars, carga, limiteVars, brokerVars, entregas,
                 peticion, registro, entregaPedido, descarga,
                 consulta, canales, conexiones, consumoPedidos, duenoLock,
                 bienvenida, fallosDeLock>>

\* The main loop runs a scheduled send_personal_json: the driver's WebSocket
\* is looked up and written to; a driver without one is skipped, and a failed
\* send unregisters the driver
EjecutarPush(o, d, enviado) ==
  /\ <<o, d>> \in despachos.programados
  /\ IF registro.activa[d] # SinHandle
     THEN /\ despachos' = [despachos EXCEPT !.programados = @ \ {<<o, d>>},
                                            !.escritores = @ \cup {"main_loop"}]
          /\ registro' = IF enviado THEN registro
                         ELSE [registro EXCEPT
                                 !.activa = disconnect(registro.activa, d)]
     ELSE /\ despachos' = [despachos EXCEPT !.programados = @ \ {<<o, d>>}]
          /\ registro' = registro
  /\ UNCHANGED <<pedidoVars, turnoVars, carga, limiteVars, brokerVars, entregas,
                 peticion, pushes, entregaPedido, descarga,
                 consulta, canales, conexiones, consumoPedidos, duenoLock,
                 bienvenida, fallosDeLock>>

NextHilos ==
  \/ \E o \in Orders, consulta_ok \in BOOLEAN :
       on_dispatch_message_callback(o, consulta_ok)
  \/ \E o \in Orders, d \in Drivers, enviado \in BOOLEAN : EjecutarPush(o, d, enviado)
  \/ \E d \in Drivers : Conectar(d)

\* ------------------------------------------ producers: channels and threads
\* The threads of asyncio's default executor that run _publicar_sync, the
\* threads of the bot that publish, and the channels opened in one run
NumHilos == 2
MaxCanales == 3
Hilos == 1..NumHilos
SinCanal == 0

\* No channel open: the driver service's _channel_producer is None, no bot
\* thread has a _thread_local.channel, and no thread is inside basic_publish
SinCanales ==
  [channel_producer |-> SinCanal,
   thread_local |-> [t \in Hilos |-> SinCanal],
   pool |-> [t \in Hilos |-> SinCanal],
   bot |-> [t \in Hilos |-> SinCanal],
   siguiente |-> 1]

\* _publicar_sync up to its basic_publish, on executor thread t:
\* _get_rabbitmq_producer_channel opens the module's channel under
\* _producer_lock when there is none and returns it, the lock is released,
\* and the thread enters basic_publish on that channel
PublicarSyncEntrar(t) ==
  /\ canales.pool[t] = SinCanal
  /\ canales.channel_producer = SinCanal => canales.siguiente <= MaxCanales
  /\ LET nuevo == canales.channel_producer = SinCanal
         channel == IF nuevo THEN canales.siguiente ELSE canales.channel_producer
     IN  canales' = [canales EXCEPT
                       !.channel_producer = channel,
                       !.siguiente = IF nuevo THEN @ + 1 ELSE @,
                       !.pool[t] = channel]
  /\ UNCHANGED <<pedidoVars, turnoVars, carga, limiteVars, brokerVars, entregas,
                 peticion, pushes, registro, entregaPedido, descarga,
                 consulta, despachos, conexiones, consumoPedidos, duenoLock,
                 bienvenida, fallosDeLock>>

\* _publicar_sync from the return of basic_publish: True, or on an exception
\* the module's channel and connection are dropped under the lock
PublicarSyncSalir(t, ok) ==
  /\ canales.pool[t] # SinCanal
  /\ canales' = [canales EXCEPT
                   !.channel_producer = IF ok THEN @ ELSE SinCanal,
                   !.pool[t] = SinCanal]
  /\ UNCHANGED <<pedidoVars, turnoVars, carga, limiteVars, brokerVars, entregas,
                 peticion, pushes, registro, entregaPedido, descarga,
                 consulta, despachos, conexiones, consumoPedidos, duenoLock,
                 bienvenida, fallosDeLock>>

\* publish_incoming_message / publish_order up to basic_publish, on bot thread
\* t: _get_thread_channel opens the thread's own connection and channel when
\* it has none
BotPublicarEntrar(t) ==
  /\ canales.bot[t] = SinCanal
  /\ canales.thread_local[t] = SinCanal => canales.siguiente <= MaxCanales
  /\ LET nuevo == canales.thread_local[t] = SinCanal
         channel == IF nuevo THEN canales.siguiente ELSE canales.thread_local[t]
     IN  canales' = [canales EXCEPT
                       !.thread_local[t] = channel,
                       !.siguiente = IF nuevo THEN @ + 1 ELSE @,
                       !.bot[t] = channel]
  /\ UNCHANGED <<pedidoVars, turnoVars, carga, limiteVars, brokerVars, entregas,
                 peticion, pushes, registro, entregaPedido, descarga,
                 consulta, despachos, conexiones, consumoPedidos, duenoLock,
                 bienvenida, fallosDeLock>>

\* publish_incoming_message / publish_order from the return of basic_publish;
\* an AMQP error closes the thread's connection
BotPublicarSalir(t, ok) ==
  /\ canales.bot[t] # SinCanal
  /\ canales' = [canales EXCEPT
                   !.thread_local[t] = IF ok THEN @ ELSE SinCanal,
                   !.bot[t] = SinCanal]
  /\ UNCHANGED <<pedidoVars, turnoVars, carga, limiteVars, brokerVars, entregas,
                 peticion, pushes, registro, entregaPedido, descarga,
                 consulta, despachos, conexiones, consumoPedidos, duenoLock,
                 bienvenida, fallosDeLock>>

NextCanales ==
  \/ \E t \in Hilos : PublicarSyncEntrar(t)
  \/ \E t \in Hilos, ok \in BOOLEAN : PublicarSyncSalir(t, ok)
  \/ \E t \in Hilos : BotPublicarEntrar(t)
  \/ \E t \in Hilos, ok \in BOOLEAN : BotPublicarSalir(t, ok)

\* ------------------------------------------- consumers: broker reconnects
\* max_retries of start_dispatch_consumer (30), scaled, and the broker
\* outages of one run
MaxRetries == 2
MaxCaidas == 3

\* The pika consumers: start_dispatch_consumer, start_worker and
\* start_client_notification_consumer
ConsumidoresPika == {"despacho", "worker", "notificaciones"}

\* The services have just started, with the broker up
ConexionesIniciales ==
  [broker_arriba |-> TRUE, caidas |-> 0,
   estado |-> [c \in ConsumidoresPika |-> "conectando"],
   retries |-> 0]

\* What a consumer does with an AMQPConnectionError, raised by the connect or
\* by the consume loop. start_dispatch_consumer counts it in retries, which
\* no successful connection resets, and leaves its loop at max_retries;
\* start_worker re-raises and run_worker exits; the notification consumer
\* logs it and returns
TrasErrorDeConexion(c, con) ==
  IF c = "despacho"
  THEN [con EXCEPT !.retries = @ + 1,
                   !.estado[c] = IF con.retries + 1 >= MaxRetries
                                 THEN "detenido" ELSE "conectando"]
  ELSE [con EXCEPT !.estado[c] = "detenido"]

\* The broker goes down: the connections of the consumers are lost
CaerBroker ==
  /\ conexiones.broker_arriba
  /\ conexiones.caidas < MaxCaidas
  /\ conexiones' =
       [conexiones EXCEPT
          !.broker_arriba = FALSE,
          !.caidas = @ + 1,
          !.estado = [c \in ConsumidoresPika |->
                        IF conexiones.estado[c] = "consumiendo"
                        THEN "conexion_perdida" ELSE conexiones.estado[c]]]
  /\ UNCHANGED <<pedidoVars, turnoVars, carga, limiteVars, brokerVars, entregas,
                 peticion, pushes, registro, entregaPedido, descarga,
                 consulta, despachos, canales, consumoPedidos, duenoLock,
                 bienvenida, fallosDeLock>>

\* The broker comes back
VolverBroker ==
  /\ ~conexiones.broker_arriba
  /\ conexiones' = [conexiones EXCEPT !.broker_arriba = TRUE]
  /\ UNCHANGED <<pedidoVars, turnoVars, carga, limiteVars, brokerVars, entregas,
                 peticion, pushes, registro, entregaPedido, descarga,
                 consulta, despachos, canales, consumoPedidos, duenoLock,
                 bienvenida, fallosDeLock>>

\* The consume loop of c raises on its lost connection
PerderConexion(c) ==
  /\ conexiones.estado[c] = "conexion_perdida"
  /\ conexiones' = TrasErrorDeConexion(c, conexiones)
  /\ UNCHANGED <<pedidoVars, turnoVars, carga, limiteVars, brokerVars, entregas,
                 peticion, pushes, registro, entregaPedido, descarga,
                 consulta, despachos, canales, consumoPedidos, duenoLock,
                 bienvenida, fallosDeLock>>

\* c opens its connection, declares its queue and starts to consume; with the
\* broker down the connect raises
IntentarConexion(c) ==
  /\ conexiones.estado[c] = "conectando"
  /\ conexiones' = IF conexiones.broker_arriba
                   THEN [conexiones EXCEPT !.estado[c] = "consumiendo"]
                   ELSE TrasErrorDeConexion(c, conexiones)
  /\ UNCHANGED <<pedidoVars, turnoVars, carga, limiteVars, brokerVars, entregas,
                 peticion, pushes, registro, entregaPedido, descarga,
                 consulta, despachos, canales, consumoPedidos, duenoLock,
                 bienvenida, fallosDeLock>>

NextReconexion ==
  \/ CaerBroker
  \/ VolverBroker
  \/ \E c \in ConsumidoresPika : PerderConexion(c)
  \/ \E c \in ConsumidoresPika : IntentarConexion(c)

\* --------------------------------------- orders service: the consumer tasks
\* The messages published to the two queues in one run
MaxMensajes == 4

\* start_order_consumer and start_update_consumer, each an asyncio task
ConsumidoresPedidos == {"cola_pedidos_nuevos", "cola_actualizaciones_pedido"}

\* lifespan has created both tasks and their queues are empty
ConsumoInicial ==
  [tarea |-> [c \in ConsumidoresPedidos |-> "consumiendo"],
   cola |-> [c \in ConsumidoresPedidos |-> 0],
   acks |-> [c \in ConsumidoresPedidos |-> 0],
   rechazados |-> [c \in ConsumidoresPedidos |-> 0]]

\* A producer publishes a message to the queue of c
PublicarMensaje(c) ==
  /\ LET total(f) == f["cola_pedidos_nuevos"] + f["cola_actualizaciones_pedido"]
     IN  total(consumoPedidos.cola) + total(consumoPedidos.acks)
           + total(consumoPedidos.rechazados) < MaxMensajes
  /\ consumoPedidos' = [consumoPedidos EXCEPT !.cola[c] = @ + 1]
  /\ UNCHANGED <<pedidoVars, turnoVars, carga, limiteVars, brokerVars, entregas,
                 peticion, pushes, registro, entregaPedido, descarga,
                 consulta, despachos, canales, conexiones, duenoLock,
                 bienvenida, fallosDeLock>>

\* One turn of 'async for message in queue_iter' in the task of c:
\* process_order_message / process_update_message acks the message, or
\* rejects it and re-raises, and the exception leaves the loop and ends the
\* task (start_*_consumer logs it and raises; nothing restarts the task)
ConsumirMensaje(c, suceso) ==
  /\ consumoPedidos.tarea[c] = "consumiendo"
  /\ consumoPedidos.cola[c] > 0
  /\ consumoPedidos' =
       IF AcusePedidos(suceso) = "ack"
       THEN [consumoPedidos EXCEPT !.cola[c] = @ - 1, !.acks[c] = @ + 1]
       ELSE [consumoPedidos EXCEPT !.cola[c] = @ - 1, !.rechazados[c] = @ + 1,
                                   !.tarea[c] = "terminada"]
  /\ UNCHANGED <<pedidoVars, turnoVars, carga, limiteVars, brokerVars, entregas,
                 peticion, pushes, registro, entregaPedido, descarga,
                 consulta, despachos, canales, conexiones, duenoLock,
                 bienvenida, fallosDeLock>>

NextConsumoPedidos ==
  \/ \E c \in ConsumidoresPedidos : PublicarMensaje(c)
  \/ \E c \in ConsumidoresPedidos, suceso \in Sucesos : ConsumirMensaje(c, suceso)

\* ------------------------------------------------ bot: the welcome message
\* welcome_timeout_minutes (20) and SESSION_TTL_SECONDS (3600 s = 60 min),
\* scaled to the same unit, the span of the clock, and the sender's messages
welcome_timeout_minutes == 2
SESSION_TTL == 6
MaxMinutos == 7
MaxMensajesRemitente == 3

\* No session key in the store, no message handled, no welcome sent
SinBienvenidas ==
  [ahora |-> 0, guardada |-> FALSE, last_seen |-> 0, datos |-> SesionVacia,
   mensajes |-> 0, enviadas |-> <<>>]

\* SessionManager.get_session: the stored session while its key lives, and
\* else a new UserSession, whose last_seen is the time of its creation
get_session(b) ==
  IF b.guardada /\ b.ahora - b.last_seen < SESSION_TTL
  THEN [last_seen |-> b.last_seen, current_order_data |-> b.datos]
  ELSE [last_seen |-> b.ahora, current_order_data |-> SesionVacia]

\* UserSession.should_send_welcome, awaiting_more_info being False throughout
\* (nothing sets it)
should_send_welcome(session, ahora) ==
  IF session.current_order_data # SesionVacia THEN FALSE
  ELSE ahora - session.last_seen > welcome_timeout_minutes

\* Time passes
TicBienvenida ==
  /\ bienvenida.ahora < MaxMinutos
  /\ bienvenida' = [bienvenida EXCEPT !.ahora = @ + 1]
  /\ UNCHANGED <<pedidoVars, turnoVars, carga, limiteVars, brokerVars, entregas,
                 peticion, pushes, registro, entregaPedido, descarga,
                 consulta, despachos, canales, conexiones, consumoPedidos,
                 duenoLock, fallosDeLock>>

\* process_message lines 42-117 for one message of the sender, the turns of
\* the sender coming one after another: the session is read, the welcome is
\* sent when should_send_welcome says so, and save_session, which sets
\* last_seen, runs only on the paths that ask for missing data or that
\* publish the order
TurnoConBienvenida(camino, extraido, broker_ok) ==
  /\ bienvenida.mensajes < MaxMensajesRemitente
  /\ LET session == get_session(bienvenida)
         welcome == should_send_welcome(session, bienvenida.ahora)
         datos == Fusionar(session.current_order_data, extraido)
         sal == SalidaDe(camino, datos, broker_ok)
         guarda == sal \in {"incompleto", "pedido_confirmado"}
     IN  bienvenida' =
           [ahora |-> bienvenida.ahora,
            guardada |-> IF guarda THEN TRUE
                         ELSE bienvenida.guardada
                              /\ bienvenida.ahora - bienvenida.last_seen < SESSION_TTL,
            last_seen |-> IF guarda THEN bienvenida.ahora ELSE bienvenida.last_seen,
            datos |-> IF sal = "incompleto" THEN datos
                      ELSE IF sal = "pedido_confirmado" THEN SesionVacia
                      ELSE bienvenida.datos,
            mensajes |-> bienvenida.mensajes + 1,
            enviadas |-> IF welcome THEN Append(bienvenida.enviadas, bienvenida.ahora)
                         ELSE bienvenida.enviadas]
  /\ UNCHANGED <<pedidoVars, turnoVars, carga, limiteVars, brokerVars, entregas,
                 peticion, pushes, registro, entregaPedido, descarga,
                 consulta, despachos, canales, conexiones, consumoPedidos,
                 duenoLock, fallosDeLock>>

NextBienvenida ==
  \/ TicBienvenida
  \/ \E camino \in Caminos, extraido \in Extracciones, broker_ok \in BOOLEAN :
       TurnoConBienvenida(camino, extraido, broker_ok)

\* ------------------------------------------------------- specifications
\* The row of an order that create_new_order created, confirmed and dispatched
FilaConfirmada == [estado_pedido |-> "confirmado", id_conductor_asignado |-> NoDriver]

\* Nothing in flight anywhere; the orders table and the drivers table as given
ReposoSinCarga(filas, tabla_conductores) ==
  /\ pedidos = filas
  /\ creando = {}
  /\ cola_despacho = {o \in Orders : filas[o] # SinFila}
  /\ puts = [s \in PutSlots |-> PutIdle]
  /\ cola_actualizaciones = <<>>
  /\ consumidor = ConsumidorIdle
  /\ cola_notificaciones = <<>>
  /\ conductores = tabla_conductores
  /\ aceptar = [c \in Drivers \X Orders |-> AceptarIdle]
  /\ volteados = {}
  /\ solapes = {}
  /\ lock = LockAusente
  /\ turnos = [w \in Workers |-> "idle"]
  /\ nTurnos = 0
  /\ sesion = SesionVacia
  /\ salida = [w \in Workers |-> "ninguna"]
  /\ evaluado = [w \in Workers |-> SinEvaluar]
  /\ publicados = 0
  /\ reloj = 0
  /\ registros = {}
  /\ historial = {}
  /\ broker = BrokerVacio
  /\ ultimaOp = NingunaOp
  /\ entregas = <<>>
  /\ peticion = NingunaPeticion
  /\ pushes = SinPushes
  /\ registro = RegistroVacio
  /\ descarga = SinDescarga
  /\ fallosDeLock = {}
  /\ bienvenida = SinBienvenidas
  /\ duenoLock = SinDueno
  /\ consumoPedidos = ConsumoInicial
  /\ conexiones = ConexionesIniciales
  /\ canales = SinCanales
  /\ despachos = SinDespachos
  /\ consulta = SinConsulta

Reposo(filas, tabla_conductores) ==
  /\ ReposoSinCarga(filas, tabla_conductores)
  /\ carga = SinCarga
  /\ entregaPedido = SinEntrega

\* No order yet; every driver approved and available
Init ==
  Reposo([o \in Orders |-> SinFila], [d \in Drivers |-> ConductorCandidato])

\* Every order dispatched; each driver approved and available, or as registered
InitDespachado ==
  \E tabla \in [Drivers -> {ConductorCandidato, ConductorRegistrado}] :
    Reposo([o \in Orders |-> FilaConfirmada], tabla)

\* Every order dispatched; the drivers table holds any rows
InitConductores ==
  \E tabla \in [Drivers -> FilasConductor] :
    Reposo([o \in Orders |-> FilaConfirmada], tabla)

\* No order yet, and the bot holds the complete data of one order
InitCarga ==
  /\ ReposoSinCarga([o \in Orders |-> SinFila], [d \in Drivers |-> ConductorCandidato])
  /\ \E d \in DatosCompletos : carga = [fase |-> "completo", datos |-> d]
  /\ \E clave \in BOOLEAN : entregaPedido = [clave |-> clave, reentregas |-> 0]

NextPedidos ==
  \/ \E o \in Orders : CrearPedido(o)
  \/ \E o \in Orders, publicado \in BOOLEAN : ConfirmarPedido(o, publicado)
  \/ \E s \in PutSlots, o \in Orders, req \in PutRequests : PutLeer(s, o, req)
  \/ \E s \in PutSlots : PutConfirmar(s)

NextConsumidor ==
  \/ ConsumirLeer
  \/ \E publicado \in BOOLEAN : ConsumirConfirmar(publicado)

NextAceptar ==
  \/ \E d \in Drivers, o \in Orders : AceptarVerificar(d, o)
  \/ \E d \in Drivers, o \in Orders : AceptarVoltear(d, o)
  \/ \E d \in Drivers, o \in Orders, ok \in BOOLEAN : AceptarPublicar(d, o, ok)
  \/ \E d \in Drivers, o \in Orders : AceptarRevertir(d, o)

\* The whole system
Next == NextPedidos \/ NextConsumidor \/ NextAceptar \/ NextLock
Spec == Init /\ [][Next]_vars

\* The orders service's writers of an order: creation and PUT /orders/{id}
SpecPedidos == Init /\ [][NextPedidos]_vars

\* The acceptance protocol: accept calls of the driver service and the orders
\* service's accept-event consumer, on dispatched orders
NextAceptacion == NextAceptar \/ NextConsumidor
SpecAceptar == InitDespachado /\ [][NextAceptacion]_vars

\* The bot's workers on the messages of one sender
SpecLock == Init /\ [][NextLock]_vars

\* PUT /orders/{id} requests served one after another on dispatched orders
NextPutSecuencial ==
  \/ \E o \in Orders, req \in PutRequests : PutLeer(1, o, req)
  \/ PutConfirmar(1)
SpecPutSecuencial == InitDespachado /\ [][NextPutSecuencial]_vars

\* The bot's workers on the messages of one sender, every turn shorter than
\* the lock's 300 s expiry
SpecTurnos == Init /\ [][NextTurno]_vars

\* One completed order from the bot's publish to the orders DB
NextCarga ==
  \/ PublicarCarga
  \/ \E o \in Orders : ProcesarPedidoNuevo(o)
  \/ \E o \in Orders, publicado \in BOOLEAN : ConfirmarPedido(o, publicado)
  \/ ReentregarCarga
SpecCarga == InitCarga /\ [][NextCarga]_vars

\* The services' declarations and publishes on one broker, in any order
SpecTopologia == Init /\ [][NextTopologia]_vars

\* Messages delivered to the four consumers
SpecEntregas == Init /\ [][NextEntregas]_vars

\* Dispatch events processed while drivers change their availability
SpecDespacho == InitConductores /\ [][NextDespacho]_vars

\* Drivers connecting to and leaving /ws/drivers/location
SpecRegistro == Init /\ [][NextRegistro]_vars

\* Audio messages downloaded one after another
SpecDescarga == Init /\ [][NextDescarga]_vars

\* Requests of one sender at POST /webhook
SpecWebhook == Init /\ [][NextWebhook]_vars

\* The requests of one sender at the webhook's rate limiter
SpecLimite == Init /\ [][NextLimite]_vars

\* get_next_prompt on every session
SpecPrompt == Init /\ [][NextPrompt]_vars

\* The dispatch consumer thread, the main loop's scheduled sends and the
\* drivers' connections
SpecHilos == InitDespachado /\ [][NextHilos]_vars

\* The publishing threads of the driver service and of the bot
SpecCanales == Init /\ [][NextCanales]_vars

\* The pika consumers and the broker's outages. A broker that is down comes
\* back, and a consumer that can take its next step takes it
SpecReconexion ==
  /\ Init
  /\ [][NextReconexion]_vars
  /\ WF_vars(VolverBroker)
  /\ \A c \in ConsumidoresPika :
       WF_vars(PerderConexion(c)) /\ WF_vars(IntentarConexion(c))

\* The two consumer tasks of the orders service; a task that has a message
\* to take takes it
SpecConsumoPedidos ==
  /\ Init
  /\ [][NextConsumoPedidos]_vars
  /\ \A c \in ConsumidoresPedidos :
       WF_vars(\E suceso \in Sucesos : ConsumirMensaje(c, suceso))

\* The messages of one sender, one turn after another, and the clock
SpecBienvenida == Init /\ [][NextBienvenida]_vars

\* ------------------------------------------------------------ properties
\* C1: every change of the status of an order that create_new_order has
\* finished creating goes from the status stored just before the commit to a
\* status the transition matrix permits from it, under any interleaving of
\* update_order_by_id calls.
C1_CambiosSiguenLaMatriz ==
  [][\A o \in Orders :
       (/\ o \notin creando /\ o \notin creando'
        /\ pedidos'[o].estado_pedido # pedidos[o].estado_pedido)
       => pedidos'[o].estado_pedido \in Permitidos(pedidos[o].estado_pedido)]_vars

\* C2: once an order is in asignado_conductor with a driver assigned, no later
\* accept event changes the assigned driver.
C2_ConductorAsignadoSeMantiene ==
  [][\A o \in Orders :
       (pedidos[o].estado_pedido = "asignado_conductor"
        /\ pedidos[o].id_conductor_asignado # NoDriver)
       => pedidos'[o].id_conductor_asignado = pedidos[o].id_conductor_asignado]_vars

\* C3: of two accept calls by different drivers for the same order that were in
\* flight together, when one has succeeded the other (unless its own publish
\* failed) is answered 403, so at most one of them succeeds.
C3_UnSoloGanadorPorPedido ==
  \A c1, c2 \in Drivers \X Orders :
    (/\ {c1, c2} \in solapes
     /\ c1[1] # c2[1] /\ c1[2] = c2[2]
     /\ aceptar[c1].pc = "fin" /\ aceptar[c2].pc = "fin"
     /\ aceptar[c1].status = 200
     /\ aceptar[c2].mensaje # "revertido")
    => aceptar[c2].status = 403

\* C4: of two accept calls of the same driver that were in flight together, at
\* most one gets past the flip to en_servicio, and the other ends with 403.
PasoElVolteo(c) ==
  \/ aceptar[c].pc \in {"volteado", "publicacion_fallida"}
  \/ aceptar[c].pc = "fin" /\ aceptar[c].mensaje \in {"exito", "revertido"}
C4_VolteoAtomico ==
  \A c1, c2 \in Drivers \X Orders :
    (/\ {c1, c2} \in solapes
     /\ c1 # c2 /\ c1[1] = c2[1]
     /\ PasoElVolteo(c1))
    => /\ ~PasoElVolteo(c2)
       /\ aceptar[c2].pc = "fin" => aceptar[c2].status = 403

C6_UnSoloPoseedor == Cardinality(Poseedores) <= 1

\* C7: once every accept call has returned and every accept event has been
\* consumed, each driver in en_servicio is the assigned driver of some order.
AceptacionEnReposo ==
  /\ LlamadasEnCurso = {}
  /\ cola_actualizaciones = <<>>
  /\ consumidor.pc = "idle"
C7_NingunConductorAtascado ==
  AceptacionEnReposo
  => \A d \in Drivers :
       conductores[d].estado_disponibilidad = "en_servicio"
       => \E o \in Orders : pedidos[o].id_conductor_asignado = d

\* C8: whenever an order's assigned driver is set to a driver, that driver was
\* switched to en_servicio by an accept call at or before that moment.
C8_AsignadoYaVolteado ==
  [][\A o \in Orders :
       (pedidos'[o].id_conductor_asignado # pedidos[o].id_conductor_asignado
        /\ pedidos'[o].id_conductor_asignado # NoDriver)
       => pedidos'[o].id_conductor_asignado \in volteados']_vars

\* C9: a client-notification event is published only by the step that moves an
\* order into asignado_conductor.
C9_NotificacionSoloAlAsignar ==
  [][Len(cola_notificaciones') > Len(cola_notificaciones)
     => \E o \in Orders :
          /\ pedidos[o].estado_pedido # "asignado_conductor"
          /\ pedidos'[o].estado_pedido = "asignado_conductor"]_vars

\* C10: an order has an assigned driver if and only if its status is one of
\* asignado_conductor, en_camino_origen, en_origen, viaje_iniciado,
\* en_destino, entregado, completado.
C10_ConductorSiiEstadoAsignado ==
  \A o \in Orders :
    pedidos[o] # SinFila
    => (pedidos[o].id_conductor_asignado # NoDriver
        <=> pedidos[o].estado_pedido \in EstadosConConductor)

\* C11: an update whose requested status is not a permitted target of the
\* status the handler read mutates nothing: the commit step of such a request
\* leaves the orders table as it was.
C11_RechazoSinMutar ==
  [][\A s \in PutSlots :
       (/\ puts[s].pc = "leido" /\ puts'[s].pc = "fin"
        /\ puts[s].req.estado_pedido # Unset
        /\ puts[s].req.estado_pedido \notin Permitidos(puts[s].snap.estado_pedido))
       => pedidos' = pedidos]_vars

\* C12: a message taken while the lock key is in the store and another turn
\* holds it gets the 'please wait' reply and is acked; from taking it to its
\* ack neither the session, nor the published orders, nor the lock change by
\* its doing, and it never enters the body of a turn.
C12_MensajeEnEsperaNoSeProcesa ==
  [][\A w \in Workers :
       /\ (/\ turnos[w] = "idle" /\ turnos'[w] # "idle"
           /\ lock # LockAusente /\ Poseedores # {})
          => /\ turnos'[w] = "sin_lock"
             /\ salida'[w] = "espera"
             /\ lock' = lock /\ sesion' = sesion /\ publicados' = publicados
       /\ (turnos[w] = "sin_lock" /\ turnos'[w] # "sin_lock")
          => /\ turnos'[w] = "idle"
             /\ salida[w] = "espera"
             /\ AcuseDe(salida[w]) = "ack"
             /\ lock' = lock /\ sesion' = sesion /\ publicados' = publicados]_vars
\* C12 witness: a message was answered 'please wait' while another worker's
\* turn holds the lock, whose key is in the store
C12_Witness ==
  \E w, v \in Workers :
    /\ w # v
    /\ turnos[w] = "sin_lock" /\ salida[w] = "espera"
    /\ v \in Poseedores
    /\ lock = LockConExpiracion

\* C13: a turn that acquired the lock goes from its body, whatever the exit
\* path, to the release and only then to the ack or nack of its message; the
\* release deletes the lock key, unless the store fails on the DELETE.
SalidasDelCuerpo ==
  {"unsupported_media", "audio_not_understood", "audio_error", "vacio",
   "ai_error", "incompleto", "pedido_confirmado", "order_failed", "excepcion"}
C15_SesionGuardadaTrasFallo ==
  [][\A w \in Workers :
       (/\ turnos[w] = "procesando" /\ turnos'[w] = "finalizando"
        /\ salida'[w] = "order_failed")
       => sesion' = evaluado'[w]]_vars

\* C17: every order that create_new_order has finished with is past solicitado
\* and, while it is confirmado, its dispatch event has been published, whether
\* or not the broker accepted the publish.
C17_ConfirmadoConEventoDeDespacho ==
  \A o \in Orders :
    (o \notin creando /\ pedidos[o].estado_pedido \in {"solicitado", "confirmado"})
    => o \in cola_despacho

\* C18: every step that moves an order into asignado_conductor, by the
\* accept-event consumer or by PUT /orders/{id}, publishes one
\* client-notification event for that order.
C18_NotificacionEnCadaAsignacion ==
  [][\A o \in Orders :
       (/\ pedidos[o].estado_pedido # "asignado_conductor"
        /\ pedidos'[o].estado_pedido = "asignado_conductor")
       => /\ Len(cola_notificaciones') = Len(cola_notificaciones) + 1
          /\ cola_notificaciones'[Len(cola_notificaciones')].id_pedido = o]_vars

\* C16: a published and confirmed order payload that the new-order consumer
\* has processed has one order persisted for it, in confirmado once
\* create_new_order has finished.
C16_CargaPublicadaSePersiste ==
  (/\ carga.fase \in {"aceptado", "rechazado"} /\ creando = {}
   /\ entregaPedido.reentregas = 0)
  => Cardinality({o \in Orders : pedidos[o].estado_pedido = "confirmado"}) = 1

\* The timestamps that the store recorded, from the history
Registradas == {h.t : h \in {g \in historial : g.almacen # "sin_conexion"}}

\* C19: a request that the store answers is rejected exactly when at least
\* max_requests requests are recorded with timestamps inside the last
\* window_seconds.
C19_RechazaExactamenteConNRegistradas ==
  [][\A n \in historial' \ historial :
       n.almacen = "ok"
       => (~n.permitido
           <=> Cardinality({m \in Registradas : m > n.t - window_seconds})
                 >= max_requests)]_vars
\* C19 witness: the max_requests-th request inside the window was admitted
\* and the next one inside the window was rejected
C19_Witness ==
  \E a \in historial, b \in historial :
    /\ a.almacen = "ok" /\ a.permitido
    /\ Cardinality({m \in Registradas : a.t - window_seconds < m /\ m < a.t})
         = max_requests - 1
    /\ b.almacen = "ok" /\ ~b.permitido
    /\ Cardinality({m \in Registradas : b.t - window_seconds < m /\ m < b.t})
         = max_requests
    /\ a.t < b.t

\* C20: after max_requests admitted requests in a window that starts with
\* request a and a rejected one in that window, the request that arrives one
\* tick over window_seconds after a is admitted.
C20_AdmiteTrasLaVentana ==
  [][\A n \in historial' \ historial : \A a \in historial :
       (/\ n.almacen = "ok"
        /\ n.t = a.t + window_seconds + 1
        /\ a.permitido
        /\ \A h \in historial : ~(a.t - window_seconds < h.t /\ h.t < a.t)
        /\ Cardinality({h \in historial :
                          h.permitido /\ a.t <= h.t /\ h.t < a.t + window_seconds})
             = max_requests
        /\ \E r \in historial :
             ~r.permitido /\ a.t < r.t /\ r.t < a.t + window_seconds)
       => n.permitido]_vars

\* C21: a message rejected without requeue on a consumed queue lands in that
\* queue's dead-letter queue.
C21_RechazadoVaAlDlx ==
  ultimaOp.op = "rechazar" => ultimaOp.resultado = "en_cola_dlx"

\* C22: no declaration by any service, in any order and however often it is
\* repeated, gets a broker error.
C22_DeclaracionesIdempotentes ==
  ultimaOp.resultado # "precondition_failed"

\* C30: a dispatch event, an accept event or a client notification published
\* on the declared dispatch_exchange is stored in a queue.
C30_EventoPublicadoSeEncola ==
  (/\ ultimaOp.op = "publicar"
   /\ ultimaOp.sujeto \in ClavesDePedidos \cup {"pedido.conductor_acepto"}
   /\ "dispatch_exchange" \in broker.exchanges)
  => ultimaOp.resultado = "encolado"

\* C23: in each of the four consumers a message whose processing raises an
\* unexpected error is negatively acknowledged without requeue: it is not
\* acked and not put back on its queue.
C23_ErrorInesperadoEsNack ==
  \A i \in 1..Len(entregas) :
    entregas[i].suceso \in ErroresInesperados => entregas[i].acuse = "nack"

\* C24: the webhook publishes only after the content-length check, the
\* signature check and the rate-limit gate were passed, in that order; a
\* request answered 403, 429 or 503 by one of those checks publishes nothing;
\* and a request with a sender is answered 200 only after its publish
\* succeeded.
C24_PublicaTrasLasComprobaciones ==
  LET alcanza(paso) == \E i \in 1..Len(peticion.pasos) : peticion.pasos[i] = paso
      ultimo == peticion.pasos[Len(peticion.pasos)]
  IN  /\ (peticion.publicado \/ alcanza("publish"))
         => /\ Len(peticion.pasos) >= 3
            /\ SubSeq(peticion.pasos, 1, 3) = <<"content_length", "signature", "rate_limit">>
            /\ \A i \in 1..Len(peticion.pasos) :
                 peticion.pasos[i] = "publish" => i > 3
      /\ (peticion.status \in {403, 429} \/ (peticion.status = 503 /\ ~alcanza("publish")))
         => ~peticion.publicado
      /\ (peticion.status = 200 /\ peticion.remitente)
         => peticion.publicado /\ ultimo = "publish"
      /\ peticion.publicado => ultimaOp.resultado = "encolado"
\* C24 witness: a request of a limited sender was answered 429 at the gate
\* with nothing published, after an earlier request had been enqueued
C24_Witness ==
  /\ peticion.status = 429
  /\ ~peticion.publicado
  /\ peticion.pasos = <<"content_length", "signature", "rate_limit">>
  /\ ultimaOp.resultado = "encolado"

C26_CierreViejoNoDesregistra ==
  [][\A d \in Drivers, h \in Handles :
       (/\ <<d, h>> \in registro.abiertas
        /\ <<d, h>> \notin registro'.abiertas
        /\ registro.activa[d] # h)
       => registro'.activa[d] = registro.activa[d]]_vars

C28_DescargaDentroDelLimite ==
  /\ descarga.escritos <= MaxAudio
  /\ descarga.cuerpo = MaxAudio => descarga.fase \notin {"rechazada", "abortada"}
  /\ descarga.cuerpo > MaxAudio
     => /\ ~descarga.transcrito
        /\ descarga.fase \in {"rechazada", "abortada", "error"} => ~descarga.archivo
\* C28 witness: a body one byte over the limit, sent without a Content-Length
\* header, was aborted mid-stream after the limit's worth of bytes or less had
\* been written, and its file is gone
C28_Witness ==
  /\ descarga.cuerpo = MaxAudio + 1
  /\ descarga.fase = "abortada"
  /\ descarga.escritos > 0
  /\ ~descarga.archivo

\* C29: when the session store fails while a turn acquires the processing lock
\* (on the SETNX or on the EXPIRE of set_processing), the turn ends as one that
\* did not get the lock: the 'please wait' exit, no order data evaluated, and
\* the step on which the store failed neither writes the session nor publishes
\* an order; the turn then only goes on to the ack of its message.
C29_FalloDelAlmacenEsSinLock ==
  [][\A w \in Workers :
       w \in fallosDeLock'
       => /\ turnos'[w] = "sin_lock"
          /\ salida'[w] = "espera"
          /\ evaluado'[w] = SinEvaluar
          /\ w \notin fallosDeLock
             => sesion' = sesion /\ publicados' = publicados]_vars
\* C29 witness: the store failed on a worker's SETNX while no key was there,
\* and the worker's message ended with the 'please wait' reply
C29_Witness ==
  \E w \in Workers :
    /\ w \in fallosDeLock
    /\ lock = LockAusente
    /\ Poseedores = {}
    /\ turnos[w] = "sin_lock"
    /\ salida[w] = "espera"

\* C31: get_next_prompt reports the order complete exactly when the service
\* type is one of the four services and every field required for it holds
\* text; otherwise it asks for the service type when there is none, and else
\* for exactly the required fields that are absent or blank.
C31_CompletoSiYSoloSiTodoPresente ==
  consulta.pregunta # "sin_consulta"
  => LET tipo == consulta.tipo_servicio
         valido == tipo \in {"mototaxi", "domicilio", "compras", "otro"}
         faltan == IF valido
                   THEN {c \in REQUIRED_FIELDS_PER_SERVICE[tipo] :
                           consulta.valores[c] \in {"ausente", "blanco"}}
                   ELSE {}
     IN  /\ consulta.is_complete <=> (valido /\ faltan = {})
         /\ tipo = "None" => consulta.pregunta = "SERVICE_TYPE_PROMPT"
         /\ (tipo # "None" /\ ~consulta.is_complete)
            => /\ consulta.pregunta = "MISSING_FIELDS_PROMPT"
               /\ consulta.missing = faltan
\* C31 witness: a mototaxi session whose origin is blank and whose other
\* required fields hold text is asked for the origin only
C31_Witness ==
  /\ consulta.tipo_servicio = "mototaxi"
  /\ consulta.valores["origen"] = "blanco"
  /\ consulta.pregunta = "MISSING_FIELDS_PROMPT"
  /\ consulta.missing = {"origen"}

C33_SoloElMainLoopEscribe == despachos.escritores \subseteq {"main_loop"}
\* C33 witness: the push of an acked message was written to the driver's
\* WebSocket, by the main loop
C33_Witness ==
  /\ "main_loop" \in despachos.escritores
  /\ \E o \in Orders : despachos.acks[o] = 1 /\ o \in despachos.consultados
  /\ despachos.programados = {}

\* C34: no two threads are inside basic_publish on the same channel at the
\* same time.
C34_UnCanalPorHilo ==
  LET enUso == {<<"pool", t, canales.pool[t]>> : t \in {u \in Hilos : canales.pool[u] # SinCanal}}
               \cup {<<"bot", t, canales.bot[t]>> : t \in {u \in Hilos : canales.bot[u] # SinCanal}}
  IN  \A a, b \in enUso : a[3] = b[3] => a = b

\* C35: however many outages there were, once the broker is back for good
\* every consumer is eventually consuming again.
C35_ConsumidoresReanudan ==
  \A c \in ConsumidoresPika :
    <>[](conexiones.broker_arriba) => <>[](conexiones.estado[c] = "consumiendo")

\* C36: a PUT whose requested status is one the transition matrix names is
\* not refused by the request validation (422), so an assigned order can be
\* taken on through en_camino_origen and the statuses after it.
C36_EstadosDeLaMatrizSeAceptan ==
  \A s \in PutSlots :
    puts[s].pc = "fin" => puts[s].status # 422

\* C37: whatever happened to the messages before it, a message waiting in the
\* queue of the new-order consumer or of the order-update consumer is
\* eventually consumed.
C37_SigueConsumiendoTrasUnRechazo ==
  \A c \in ConsumidoresPedidos :
    (consumoPedidos.cola[c] > 0) ~> (consumoPedidos.cola[c] = 0)

\* C38: a turn that releases the lock while the key in the store was set by
\* another turn leaves that key where it is.
C38_LiberaSoloSuLock ==
  [][\A w \in Workers :
       (/\ turnos[w] = "finalizando" /\ turnos'[w] # "finalizando"
        /\ lock # LockAusente
        /\ duenoLock # w)
       => lock' = lock]_vars

\* C39: a key in the store that has no expiry belongs to a turn that is still
\* in progress.
C39_LockSinExpiracionTieneTurno ==
  lock = LockSinExpiracion
  => /\ duenoLock \in Workers
     /\ turnos[duenoLock] \in {"setnx_hecho", "procesando", "finalizando"}

\* C40: two welcome messages to the sender are more than the welcome timeout
\* apart.
C40_UnaBienvenidaPorPeriodo ==
  \A i, j \in 1..Len(bienvenida.enviadas) :
    i < j => bienvenida.enviadas[j] - bienvenida.enviadas[i] > welcome_timeout_minutes

====
